---- MODULE Spec2Model ----
(***************************************************************************)
(* State-machine model of the GhostGuard control-plane backend             *)
(* (src/index.js): the in-memory maps serverState, livePlayersByLicense,   *)
(* actionQueue and serverLogs, the record-store tables the handlers read   *)
(* and write, and the request handlers, split at their await points.       *)
(* Time is the millisecond clock Date.now().                               *)
(***************************************************************************)
EXTENDS Integers, Sequences, FiniteSets, TLC

VARIABLES
    now,                    \* Date.now(), milliseconds
    customers,              \* store table customers: set of rows
    panel_admins,           \* store table panel_admins: set of rows
    bans,                   \* store table bans: set of rows
    server_logs,            \* store table server_logs: rows, newest first
    licenses,               \* store table licenses: set of rows
    server_status,          \* store table server_status: one row per license_key
    serverState,            \* { [license_key]: {last_seen, players, uptime, version} }
    livePlayersByLicense,   \* { [license_key]: [player] }
    actionQueue,            \* { [license_key]: [action] }
    serverLogs,             \* { [license_key]: [item] }
    inflight,               \* requests suspended at an await
    resp,                   \* the response sent by the last handler step
    nPushed,                \* number of pushAction calls so far (history)
    nLogged,                \* number of pushServerLog calls so far (history)
    nBeats,                 \* number of heartbeats taken so far (history)
    delivered,              \* actions handed to polls so far, in order (history)
    trimmed                 \* actions removed by the trim so far (history)

vars == << now, customers, panel_admins, bans, server_logs, licenses, server_status,
           serverState, livePlayersByLicense, actionQueue, serverLogs, inflight, resp,
           nPushed, nLogged, nBeats, delivered, trimmed >>

(***************************************************************************)
(* Bounds of the model.                                                    *)
(***************************************************************************)
MaxInflight == 2        \* requests suspended at the same time
MaxPush == 2            \* pushAction calls on top of the initial queue
MaxLogged == 2          \* pushServerLog calls on top of the initial buffer
MaxBeats == 2           \* heartbeats
MaxNow == 60000         \* the clock of the liveness specification stops here
MaxTicks == 1           \* milliseconds that pass in the lift specification
BurstPush == 210        \* length of the push burst
BurstLog == 310         \* length of the ingest burst

(***************************************************************************)
(* Program constants.                                                      *)
(***************************************************************************)
QueueLimit == 200       \* actionQueue[license_key].length > 200
QueueTrim == 50         \* splice(0, 50)
LogLimit == 300         \* serverLogs[license_key].length > 300
OnlineWindow == 30000   \* Date.now() - data.last_seen < 30000
DefaultLimit == 200     \* req.query.limit || "200"
LimitCap == 500         \* Math.min(..., 500)

(***************************************************************************)
(* Values.  An optional value is <<>> (undefined / null) or <<v>>.         *)
(***************************************************************************)
None == << >>
Some(v) == << v >>
IsSome(o) == o # None
Get(o) == o[1]

Keys == {"GG-A", "GG-B", "GG-X"}     \* license keys a request can carry
NoToken == ""                        \* absent or empty token (falsy)
Tokens == {"cust-A", "cust-B", "inv-A", "inv-B", "bogus"}
BanIds == {"ban-A", "ban-none"}
\* the owner and the admin of GG-A, the owner of GG-B, its deactivated admin,
\* and no token
LiftTokens == {"cust-A", "inv-A", "cust-B", "inv-B", NoToken}
TickSteps == {29999, 30000}
StartNow == 1000

\* crypto.createHash("sha256").update(str).digest("hex"): a digest is not
\* the token; distinct tokens have distinct digests.
sha256(str) == << "sha256", str >>

RangeOf(s) == { s[i] : i \in DOMAIN s }
Min(a, b) == IF a < b THEN a ELSE b

(***************************************************************************)
(* Store tables as the deployment starts with them.                        *)
(***************************************************************************)
Customers0 ==
    { [id |-> "cust-A", license_key |-> "GG-A"],
      [id |-> "cust-B", license_key |-> "GG-B"] }

PanelAdmins0 ==
    { [id |-> "adm-A", license_key |-> "GG-A", token_hash |-> sha256("inv-A"), active |-> TRUE],
      [id |-> "adm-B", license_key |-> "GG-B", token_hash |-> sha256("inv-B"), active |-> FALSE] }

\* GG-A is in use, GG-B is suspended and past its expiry, GG-X has no row.
\* first is history: the hwid of the first verify that answered valid after
\* presenting an hwid to the license while it read as unbound.
Licenses0 ==
    { [id |-> "lic-A", license_key |-> "GG-A", status |-> "ACTIVE", expires_at |-> None,
       hwid |-> None, last_seen |-> None, first |-> None],
      [id |-> "lic-B", license_key |-> "GG-B", status |-> "SUSPENDED",
       expires_at |-> Some(StartNow - 1), hwid |-> None, last_seen |-> None,
       first |-> None] }

Bans0 ==
    { [ban_id |-> "ban-A", license_key |-> "GG-A", expires_at |-> None],
      [ban_id |-> "ban-B", license_key |-> "GG-B", expires_at |-> None] }

NoResp == [kind |-> "none"]

(***************************************************************************)
(* Identity resolver: resolvePanelIdentity(token), split at its two store  *)
(* queries.  A query whose outcome is "error" yields data = null.          *)
(***************************************************************************)
NoIdentity == [kind |-> "none", license_key |-> ""]

\* supabase.from("customers").select("*").eq("id", token).single()
customerLookup(table, token, outcome) ==
    LET rows == { u \in table : u.id = token }
    IN  IF outcome = "ok" /\ Cardinality(rows) = 1
        THEN [kind |-> "customer", license_key |-> (CHOOSE u \in rows : TRUE).license_key]
        ELSE NoIdentity

\* supabase.from("panel_admins").select("*").eq("token_hash", sha256(token))
\*     .eq("active", true).single()
adminLookup_anyActive(table, token, outcome) ==
    LET rows == { a \in table : a.token_hash = sha256(token) }
    IN  IF outcome = "ok" /\ Cardinality(rows) = 1
        THEN [kind |-> "admin", license_key |-> (CHOOSE a \in rows : TRUE).license_key]
        ELSE NoIdentity

adminLookup(table, token, outcome) ==
    LET rows == { a \in table : a.token_hash = sha256(token) /\ a.active = TRUE }
    IN  IF outcome = "ok" /\ Cardinality(rows) = 1
        THEN [kind |-> "admin", license_key |-> (CHOOSE a \in rows : TRUE).license_key]
        ELSE NoIdentity

(***************************************************************************)
(* Action queue.                                                           *)
(***************************************************************************)
\* actionQueue[license_key] || []
queueOf(queue, license_key) ==
    IF IsSome(queue[license_key]) THEN Get(queue[license_key]) ELSE << >>

pushAction_noTrim(queue, license_key, action) ==
    [queue EXCEPT ![license_key] = Some(Append(queueOf(queue, license_key), action))]

pushAction_dropOne(queue, license_key, action) ==
    LET pushed == Append(queueOf(queue, license_key), action)
    IN  [queue EXCEPT ![license_key] =
            Some(IF Len(pushed) > QueueLimit THEN Tail(pushed) ELSE pushed)]

pushAction(queue, license_key, action) ==
    LET pushed == Append(queueOf(queue, license_key), action)
    IN  [queue EXCEPT ![license_key] =
            Some(IF Len(pushed) > QueueLimit
                 THEN SubSeq(pushed, QueueTrim + 1, Len(pushed))
                 ELSE pushed)]

\* the entries the push removed (history only)
splicedBy(queue, license_key, action) ==
    LET pushed == Append(queueOf(queue, license_key), action)
        kept == queueOf(pushAction(queue, license_key, action), license_key)
    IN  RangeOf(pushed) \ RangeOf(kept)

\* "ACT-" + Date.now() + "-" + Math.floor(Math.random() * 9999)
RandVals == {0, 1}
actionId(t, r) == << "ACT", t, r >>
\* "ACT-" + Date.now()
unbanId(t) == << "ACT", t >>

NoPayload == {}
Payloads == { NoPayload }
Types == {"", "kick"}

\* const list = actionQueue[license_key] || []
drainList_dropLast(queue, license_key) ==
    LET q == queueOf(queue, license_key)
    IN  IF q = << >> THEN q ELSE SubSeq(q, 1, Len(q) - 1)

drainList(queue, license_key) == queueOf(queue, license_key)

\* actionQueue[license_key] = []
drainReset_keep(queue, license_key) ==
    [queue EXCEPT ![license_key] = Some(queueOf(queue, license_key))]

drainReset(queue, license_key) == [queue EXCEPT ![license_key] = Some(<< >>)]

(***************************************************************************)
(* Frames.                                                                 *)
(***************************************************************************)
storeVars == << customers, panel_admins, bans, server_logs, licenses, server_status >>
liveVars == << serverState, livePlayersByLicense, nBeats >>
queueVars == << actionQueue, nPushed, delivered, trimmed >>
logVars == << serverLogs, nLogged >>

Suspend(r) == inflight' = inflight \cup {r}
Move(r, r2) == inflight' = (inflight \ {r}) \cup {r2}
Finish(r) == inflight' = inflight \ {r}

\* requests that will call pushAction once they are through
Pushers == { r \in inflight : r.kind \in {"action", "lift"} }

(***************************************************************************)
(* The clock.                                                              *)
(***************************************************************************)
Tick(d, horizon) ==
    /\ now + d <= StartNow + horizon
    /\ now' = now + d
    /\ resp' = NoResp
    /\ UNCHANGED << storeVars, liveVars, queueVars, logVars, inflight >>

(***************************************************************************)
(* POST /api/dashboard/action                                              *)
(***************************************************************************)
DashboardActionStart(token, type, payload) ==
    /\ IF token = NoToken \/ type = ""
       THEN /\ resp' = [kind |-> "action", status |-> 400, success |-> FALSE,
                        error |-> "MISSING_FIELDS"]
            /\ UNCHANGED inflight
       ELSE /\ Cardinality(inflight) < MaxInflight
            /\ nPushed + Cardinality(Pushers) < MaxPush
            /\ Suspend([kind |-> "action", pc |-> "customers", token |-> token,
                        type |-> type, payload |-> payload])
            /\ resp' = NoResp
    /\ UNCHANGED << now, storeVars, liveVars, queueVars, logVars >>

DashboardActionPush_byPayload(r, identity, rand) ==
    LET named == { p[2] : p \in { q \in r.payload : q[1] = "license_key" } }
        license_key == IF named = {} THEN identity.license_key ELSE CHOOSE k \in named : TRUE
        id == << "ACT", now, rand >>
        action == [id |-> id, type |-> r.type, payload |-> r.payload,
                   created_at |-> now, n |-> nPushed + 1]
    IN  /\ actionQueue' = [actionQueue EXCEPT ![license_key] =
                              Some((IF IsSome(@) THEN Get(@) ELSE << >>) \o << action >>)]
        /\ UNCHANGED trimmed
        /\ nPushed' = nPushed + 1
        /\ Finish(r)
        /\ resp' = [kind |-> "action", status |-> 200, success |-> TRUE,
                    id |-> id, req |-> r, license_key |-> identity.license_key]
        /\ UNCHANGED << now, storeVars, liveVars, logVars, delivered >>

\* pushAction(license_key, {id, type, payload: payload || {}, created_at})
DashboardActionPush(r, identity, rand) ==
    LET license_key == identity.license_key
        id == actionId(now, rand)
        action == [id |-> id, type |-> r.type, payload |-> r.payload,
                   created_at |-> now, n |-> nPushed + 1]
    IN  /\ actionQueue' = pushAction(actionQueue, license_key, action)
        /\ trimmed' = trimmed \cup splicedBy(actionQueue, license_key, action)
        /\ nPushed' = nPushed + 1
        /\ Finish(r)
        /\ resp' = [kind |-> "action", status |-> 200, success |-> TRUE,
                    id |-> id, req |-> r, license_key |-> license_key]
        /\ UNCHANGED << now, storeVars, liveVars, logVars, delivered >>

(***************************************************************************)
(* DELETE /api/server/unban/:banId                                         *)
(***************************************************************************)
LiftStart(banId, token) ==
    /\ IF token = NoToken
       THEN /\ resp' = [kind |-> "lift", status |-> 401, success |-> FALSE,
                        error |-> "UNAUTHORIZED",
                        req |-> [kind |-> "lift", token |-> token, banId |-> banId]]
            /\ UNCHANGED inflight
       ELSE /\ Cardinality(inflight) < MaxInflight
            /\ nPushed + Cardinality(Pushers) < MaxPush
            /\ Suspend([kind |-> "lift", pc |-> "customers", token |-> token,
                        banId |-> banId, identity |-> NoIdentity,
                        ban_key |-> "", ts |-> 0])
            /\ resp' = NoResp
    /\ UNCHANGED << now, storeVars, liveVars, queueVars, logVars >>

\* supabase.from("bans").select("*").eq("ban_id", banId).single()
banLookup(table, banId, outcome) ==
    LET rows == { b \in table : b.ban_id = banId }
    IN  IF outcome = "ok" /\ Cardinality(rows) = 1 THEN rows ELSE {}

LiftLookup(r, outcome) ==
    /\ r \in inflight /\ r.kind = "lift" /\ r.pc = "ban"
    /\ LET found == banLookup(bans, r.banId, outcome)
       IN  IF found = {}
           THEN /\ Finish(r)
                /\ resp' = [kind |-> "lift", status |-> 200, success |-> FALSE,
                            error |-> "", req |-> r]
           ELSE LET ban == CHOOSE b \in found : TRUE
                IN  IF ban.license_key # r.identity.license_key
                    THEN /\ Finish(r)
                         /\ resp' = [kind |-> "lift", status |-> 403, success |-> FALSE,
                                     error |-> "FORBIDDEN", req |-> r]
                    ELSE /\ Move(r, [r EXCEPT !.pc = "update",
                                              !.ban_key = ban.license_key, !.ts = now])
                         /\ resp' = NoResp
    /\ UNCHANGED << now, storeVars, liveVars, queueVars, logVars >>

\* .update({ expires_at: new Date().toISOString() }).eq("ban_id", banId), as the
\* store applies it; the handler does not look at the result
banUpdate(table, banId, ts, outcome) ==
    IF outcome = "ok"
    THEN { IF b.ban_id = banId THEN [b EXCEPT !.expires_at = Some(ts)] ELSE b : b \in table }
    ELSE table

LiftUpdate(r, outcome) ==
    /\ r \in inflight /\ r.kind = "lift" /\ r.pc = "update"
    /\ bans' = banUpdate(bans, r.banId, r.ts, outcome)
    /\ Move(r, [r EXCEPT !.pc = "push"])
    /\ resp' = NoResp
    /\ UNCHANGED << now, customers, panel_admins, server_logs, licenses, server_status,
                    liveVars, queueVars, logVars >>

\* pushAction(ban.license_key, {id, type: "unban", payload: {ban_id}, created_at})
LiftPush(r) ==
    /\ r \in inflight /\ r.kind = "lift" /\ r.pc = "push"
    /\ LET action == [id |-> unbanId(now), type |-> "unban",
                      payload |-> {<< "ban_id", r.banId >>},
                      created_at |-> now, n |-> nPushed + 1]
       IN  /\ actionQueue' = pushAction(actionQueue, r.ban_key, action)
           /\ trimmed' = trimmed \cup splicedBy(actionQueue, r.ban_key, action)
    /\ nPushed' = nPushed + 1
    /\ Finish(r)
    /\ resp' = [kind |-> "lift", status |-> 200, success |-> TRUE, error |-> "",
                req |-> r]
    /\ UNCHANGED << now, storeVars, liveVars, logVars, delivered >>

(***************************************************************************)
(* resolvePanelIdentity(token) inside a suspended request                  *)
(***************************************************************************)
\* history kept by a bare call of the resolver: the outcomes of its store queries
probed(r, outcome) ==
    IF r.kind = "resolve" THEN [r EXCEPT !.probes = Append(@, outcome)] ELSE r

Resolved(r, identity, outcome) ==
    IF r.kind = "action"
    THEN \E rand \in RandVals : DashboardActionPush(r, identity, rand)
    ELSE IF r.kind = "resolve"
    THEN /\ Finish(r)
         /\ resp' = [kind |-> "identity", identity |-> identity, req |-> probed(r, outcome)]
         /\ UNCHANGED << now, storeVars, liveVars, queueVars, logVars >>
    ELSE IF r.kind = "login"
    THEN /\ Finish(r)
         /\ resp' = [kind |-> "login", status |-> 200, success |-> identity.kind = "admin",
                     error |-> "", license_key |-> identity.license_key, req |-> r]
         /\ UNCHANGED << now, storeVars, liveVars, queueVars, logVars >>
    ELSE /\ Move(r, [r EXCEPT !.pc = "ban", !.identity = identity])
         /\ resp' = NoResp
         /\ UNCHANGED << now, storeVars, liveVars, queueVars, logVars >>

Unresolved(r, outcome) ==
    /\ Finish(r)
    /\ resp' = IF r.kind = "resolve"
               THEN [kind |-> "identity", identity |-> NoIdentity,
                     req |-> probed(r, outcome)]
               ELSE IF r.kind = "login"
               THEN [kind |-> "login", status |-> 200, success |-> FALSE, error |-> "",
                     license_key |-> "", req |-> r]
               ELSE [kind |-> r.kind, status |-> 401, success |-> FALSE,
                     error |-> "UNAUTHORIZED", req |-> r]
    /\ UNCHANGED << now, storeVars, liveVars, queueVars, logVars >>

ResolveCustomers(r, outcome) ==
    /\ r \in inflight /\ r.pc = "customers"
    /\ LET identity == customerLookup(customers, r.token, outcome)
       IN  IF identity # NoIdentity
           THEN Resolved(r, identity, outcome)
           ELSE /\ Move(r, [probed(r, outcome) EXCEPT !.pc = "admins"])
                /\ resp' = NoResp
                /\ UNCHANGED << now, storeVars, liveVars, queueVars, logVars >>

ResolveAdmins(r, outcome) ==
    /\ r \in inflight /\ r.pc = "admins"
    /\ LET identity == adminLookup(panel_admins, r.token, outcome)
       IN  IF identity # NoIdentity THEN Resolved(r, identity, outcome)
           ELSE Unresolved(r, outcome)

(***************************************************************************)
(* GET /api/server/actions/:license                                        *)
(***************************************************************************)
Drain(license_key) ==
    LET list == drainList(actionQueue, license_key)
    IN  /\ actionQueue' = drainReset(actionQueue, license_key)
        /\ delivered' = delivered \o [i \in 1..Len(list) |-> << license_key, list[i] >>]
        /\ resp' = [kind |-> "actions", status |-> 200, success |-> TRUE,
                    license_key |-> license_key, actions |-> list]
        /\ UNCHANGED << now, storeVars, liveVars, logVars, inflight, nPushed, trimmed >>

(***************************************************************************)
(* Initial states.  The maps are empty after construction; the queue       *)
(* specification also starts from a queue that earlier pushes, one per     *)
(* millisecond, have filled to just below or to its limit.                 *)
(***************************************************************************)
QueueFills == {0, QueueLimit - 1, QueueLimit}

filledQueue(len) ==
    [i \in 1..len |->
        [id |-> actionId(StartNow - 1 - (len - i), 0), type |-> "kick",
         payload |-> NoPayload, created_at |-> StartNow - 1 - (len - i),
         n |-> i - len]]

InitTables ==
    /\ customers = Customers0
    /\ panel_admins = PanelAdmins0
    /\ bans = Bans0
    /\ licenses = Licenses0
    /\ server_status = [k \in Keys |-> None]

InitStore ==
    /\ InitTables
    /\ server_logs = [k \in Keys |-> << >>]

InitLive ==
    /\ serverState = [k \in Keys |-> None]
    /\ livePlayersByLicense = [k \in Keys |-> None]
    /\ nBeats = 0

InitLogs ==
    /\ serverLogs = [k \in Keys |-> None]
    /\ nLogged = 0

InitCommon ==
    /\ now = StartNow
    /\ inflight = {}
    /\ resp = NoResp
    /\ nPushed = 0
    /\ delivered = << >>
    /\ trimmed = {}

Init ==
    /\ InitCommon /\ InitStore /\ InitLive /\ InitLogs
    /\ actionQueue = [k \in Keys |-> None]

InitQueue ==
    /\ InitCommon /\ InitStore /\ InitLive /\ InitLogs
    /\ \E len \in QueueFills :
          actionQueue = [k \in Keys |->
                            IF k = "GG-A" /\ len > 0 THEN Some(filledQueue(len)) ELSE None]

StoreOutcomes == {"ok", "error"}

\* The queue specification: every dashboard action, the lift of ban-A by
\* its owner, and the agents' polls, all within one millisecond.
NextQueue ==
    \/ \E token \in Tokens \cup {NoToken}, type \in Types, payload \in Payloads :
          DashboardActionStart(token, type, payload)
    \/ LiftStart("ban-A", "cust-A")
    \/ \E r \in inflight, outcome \in StoreOutcomes : ResolveCustomers(r, outcome)
    \/ \E r \in inflight, outcome \in StoreOutcomes : ResolveAdmins(r, outcome)
    \/ \E r \in inflight, outcome \in StoreOutcomes : LiftLookup(r, outcome)
    \/ \E r \in inflight, outcome \in StoreOutcomes : LiftUpdate(r, outcome)
    \/ \E r \in inflight : LiftPush(r)
    \/ \E license_key \in Keys : Drain(license_key)

SpecQueue == Init /\ [][NextQueue]_vars

\* The full-queue specification: tenant GG-A's owner and admin push into a
\* queue that is about to reach its limit, and the agent polls.
NextFull ==
    \/ \E token \in {"cust-A", "inv-A"}, payload \in Payloads :
          DashboardActionStart(token, "kick", payload)
    \/ LiftStart("ban-A", "cust-A")
    \/ \E r \in inflight, outcome \in StoreOutcomes : ResolveCustomers(r, outcome)
    \/ \E r \in inflight, outcome \in StoreOutcomes : ResolveAdmins(r, outcome)
    \/ \E r \in inflight, outcome \in StoreOutcomes : LiftLookup(r, outcome)
    \/ \E r \in inflight, outcome \in StoreOutcomes : LiftUpdate(r, outcome)
    \/ \E r \in inflight : LiftPush(r)
    \/ Drain("GG-A")

SpecFull == InitQueue /\ [][NextFull]_vars

\* The lift specification: every lift request, and the agents' polls.
NextLift ==
    \/ Tick(1, MaxTicks)
    \/ \E banId \in BanIds, token \in LiftTokens : LiftStart(banId, token)
    \/ \E r \in inflight, outcome \in StoreOutcomes : ResolveCustomers(r, outcome)
    \/ \E r \in inflight, outcome \in StoreOutcomes : ResolveAdmins(r, outcome)
    \/ \E r \in inflight, outcome \in StoreOutcomes : LiftLookup(r, outcome)
    \/ \E r \in inflight, outcome \in StoreOutcomes : LiftUpdate(r, outcome)
    \/ \E r \in inflight : LiftPush(r)
    \/ \E license_key \in Keys : Drain(license_key)

SpecLift == Init /\ [][NextLift]_vars

(***************************************************************************)
(* The burst specification: pushAction called BurstPush times in a row for *)
(* tenant GG-A with commands c1, c2, ..., and the agent's polls.           *)
(***************************************************************************)
burstAction(i) ==
    [id |-> actionId(StartNow, i), type |-> "kick", payload |-> NoPayload,
     created_at |-> StartNow, n |-> i]

PushBurst ==
    /\ nPushed < BurstPush
    /\ actionQueue' = pushAction(actionQueue, "GG-A", burstAction(nPushed + 1))
    /\ trimmed' = trimmed \cup splicedBy(actionQueue, "GG-A", burstAction(nPushed + 1))
    /\ nPushed' = nPushed + 1
    /\ resp' = NoResp
    /\ UNCHANGED << now, storeVars, liveVars, logVars, inflight, delivered >>

NextBurst ==
    \/ PushBurst
    \/ Drain("GG-A")

SpecBurst == Init /\ [][NextBurst]_vars

(***************************************************************************)
(* Liveness: POST /api/server/heartbeat and GET /api/server/status/:license *)
(***************************************************************************)
\* Array.isArray(players) ? players : []
rosterOf(players) == IF IsSome(players) THEN Get(players) ELSE << >>

\* Number(uptime || 0) of a number or of nothing
uptimeOf(uptime) == IF IsSome(uptime) THEN Get(uptime) ELSE 0

\* version || null
versionOf(version) == IF version = "" THEN None ELSE Some(version)

heartbeatState_merge(state, license_key, t, roster, uptime, version) ==
    [state EXCEPT ![license_key] =
        Some([last_seen |-> t, players |-> Len(roster),
              uptime |-> IF uptime = None /\ IsSome(state[license_key])
                         THEN Get(state[license_key]).uptime ELSE uptimeOf(uptime),
              version |-> IF version = "" /\ IsSome(state[license_key])
                          THEN Get(state[license_key]).version ELSE versionOf(version)])]

\* serverState[license_key] = { last_seen, players, uptime, version }
heartbeatState_shared(state, license_key, t, roster, uptime, version) ==
    [k \in DOMAIN state |->
        IF k = license_key
        THEN Some([last_seen |-> t, players |-> Len(roster),
                   uptime |-> uptimeOf(uptime), version |-> versionOf(version)])
        ELSE None]

heartbeatState(state, license_key, t, roster, uptime, version) ==
    [state EXCEPT ![license_key] =
        Some([last_seen |-> t, players |-> Len(roster),
              uptime |-> uptimeOf(uptime), version |-> versionOf(version)])]

HeartbeatStart(license_key, players, version, uptime) ==
    /\ IF license_key = ""
       THEN /\ resp' = [kind |-> "heartbeat", status |-> 400, success |-> FALSE,
                        error |-> "MISSING_LICENSE",
                        req |-> [kind |-> "heartbeat", license_key |-> license_key]]
            /\ UNCHANGED << inflight, liveVars >>
       ELSE /\ Cardinality(inflight) < MaxInflight
            /\ nBeats < MaxBeats
            /\ livePlayersByLicense' =
                  [livePlayersByLicense EXCEPT ![license_key] = Some(rosterOf(players))]
            /\ serverState' = heartbeatState(serverState, license_key, now,
                                             rosterOf(players), uptime, version)
            /\ nBeats' = nBeats + 1
            /\ Suspend([kind |-> "heartbeat", pc |-> "upsert", license_key |-> license_key,
                        players |-> players, version |-> version, uptime |-> uptime,
                        count |-> Len(rosterOf(players)), at |-> now])
            /\ resp' = NoResp
    /\ UNCHANGED << now, storeVars, queueVars, logVars >>

HeartbeatUpsert_surfacing(r, outcome) ==
    /\ r \in inflight /\ r.kind = "heartbeat" /\ r.pc = "upsert"
    /\ UNCHANGED server_status
    /\ Finish(r)
    /\ resp' = [kind |-> "heartbeat", status |-> IF outcome = "ok" THEN 200 ELSE 500,
                success |-> outcome = "ok", req |-> r, outcome |-> outcome]
    /\ UNCHANGED << now, customers, panel_admins, bans, server_logs, licenses,
                    liveVars, queueVars, logVars >>

\* await supabase.from("server_status").upsert({...}) inside try/catch, then
\* res.json({ success: true })
HeartbeatUpsert(r, outcome) ==
    /\ r \in inflight /\ r.kind = "heartbeat" /\ r.pc = "upsert"
    /\ server_status' =
          IF outcome = "ok"
          THEN [server_status EXCEPT ![r.license_key] =
                   Some([online |-> TRUE, players |-> r.count,
                         version |-> versionOf(r.version), uptime |-> uptimeOf(r.uptime),
                         last_seen |-> r.at])]
          ELSE server_status
    /\ Finish(r)
    /\ resp' = [kind |-> "heartbeat", status |-> 200, success |-> TRUE, req |-> r,
                outcome |-> outcome]
    /\ UNCHANGED << now, customers, panel_admins, bans, server_logs, licenses,
                    liveVars, queueVars, logVars >>

isOnline_inclusive(t, last_seen) == t - last_seen <= OnlineWindow

\* Date.now() - data.last_seen < 30000
isOnline(t, last_seen) == t - last_seen < OnlineWindow

Status(license_key) ==
    /\ resp' =
          IF serverState[license_key] = None
          THEN [kind |-> "status", status |-> 200, license_key |-> license_key,
                online |-> FALSE, players |-> 0, uptime |-> 0, version |-> None,
                last_seen |-> None]
          ELSE LET data == Get(serverState[license_key])
               IN  [kind |-> "status", status |-> 200, license_key |-> license_key,
                    online |-> isOnline(now, data.last_seen), players |-> data.players,
                    uptime |-> data.uptime, version |-> data.version,
                    last_seen |-> Some(data.last_seen)]
    /\ UNCHANGED << now, storeVars, liveVars, queueVars, logVars, inflight >>

Player(i) == [id |-> i, name |-> "p", ping |-> 40]
\* what an agent presents: nothing but its key, or players, version and uptime
Beats ==
    { [players |-> None, version |-> "", uptime |-> None],
      [players |-> Some(<< Player(1), Player(2) >>), version |-> "3.1.0", uptime |-> Some(120)] }

NextLive ==
    \/ \E d \in TickSteps : Tick(d, MaxNow)
    \/ \E license_key \in Keys \cup {""}, b \in Beats :
          HeartbeatStart(license_key, b.players, b.version, b.uptime)
    \/ \E r \in inflight, outcome \in {"ok", "error", "throw"} : HeartbeatUpsert(r, outcome)
    \/ \E license_key \in Keys : Status(license_key)

SpecLive == Init /\ [][NextLive]_vars

(***************************************************************************)
(* Logs: the in-memory buffer and the server_logs table.                   *)
(***************************************************************************)
\* serverLogs[license_key] || []
logsOf(logs, license_key) ==
    IF IsSome(logs[license_key]) THEN Get(logs[license_key]) ELSE << >>

pushServerLog_append(logs, license_key, item) ==
    LET added == Append(logsOf(logs, license_key), item)
    IN  [logs EXCEPT ![license_key] =
            Some(IF Len(added) > LogLimit THEN SubSeq(added, 1, LogLimit) ELSE added)]

pushServerLog_dropHead(logs, license_key, item) ==
    LET added == << item >> \o logsOf(logs, license_key)
    IN  [logs EXCEPT ![license_key] =
            Some(IF Len(added) > LogLimit THEN SubSeq(added, 2, Len(added)) ELSE added)]

\* unshift(item); if (length > 300) length = 300
pushServerLog(logs, license_key, item) ==
    LET added == << item >> \o logsOf(logs, license_key)
    IN  [logs EXCEPT ![license_key] =
            Some(IF Len(added) > LogLimit THEN SubSeq(added, 1, LogLimit) ELSE added)]

\* x || dflt for an optional string: undefined, null and "" are falsy
OrElse(x, dflt) == IF x = "" THEN dflt ELSE x

\* "LOG-" + Date.now() + "-" + Math.floor(Math.random() * 9999)
logId(t, r) == << "LOG", t, r >>

\* the item POST /api/server/log builds
logItem(t, r, level, type, title, message, meta, n) ==
    [id |-> logId(t, r), time |-> t, level |-> OrElse(level, "info"),
     type |-> OrElse(type, "log"), title |-> OrElse(title, "Server"),
     message |-> message, meta |-> meta, n |-> n]

\* the row server_logs gets from insert([{license_key, level, type, title,
\* message, meta}]); id and created_at are the table's defaults
logRow(item, license_key, t) ==
    [id |-> << "ROW", item.n >>, license_key |-> license_key, level |-> item.level,
     type |-> item.type, title |-> item.title, message |-> item.message,
     meta |-> item.meta, created_at |-> t, n |-> item.n]

\* a row written by an older agent: no id, level, type, title or meta
legacyRow ==
    [id |-> None, license_key |-> "GG-A", level |-> "", type |-> "", title |-> "",
     message |-> "old", meta |-> None, created_at |-> StartNow - 1, n |-> 0]

LogLevels == {"", "warn"}
Messages == {"", "m"}

\* req.query.limit: not given, or the text given
NoQuery == ""
\* parseInt(text, 10) of the texts the model uses; None is NaN
IntTexts == {"0", "1", "2", "600", "-1"}
parseInt10(text) ==
    IF text \in IntTexts
    THEN Some(CASE text = "0" -> 0 [] text = "1" -> 1 [] text = "2" -> 2
                [] text = "600" -> 600 [] text = "-1" -> 0 - 1)
    ELSE None

\* Math.min(parseInt(req.query.limit || "200", 10), 500)
readLimit(query) ==
    LET parsed == IF query = NoQuery THEN Some(DefaultLimit) ELSE parseInt10(query)
    IN  IF parsed = None THEN None ELSE Some(Min(Get(parsed), LimitCap))

\* Array.prototype.slice(0, limit); a NaN limit counts as 0, a negative one
\* counts from the end
slice0(list, limit) ==
    LET end == IF limit = None THEN 0
               ELSE IF Get(limit) < 0 THEN Len(list) + Get(limit)
               ELSE Min(Get(limit), Len(list))
    IN  IF end <= 0 THEN << >> ELSE SubSeq(list, 1, end)

\* the result { data, error } of select(...).eq("license_key", ...)
\* .order("created_at", desc).limit(limit); the store rejects a limit that is
\* no count
selectLogs(table, license_key, limit, outcome) ==
    IF outcome = "ok" /\ limit # None /\ Get(limit) >= 0
    THEN [error |-> FALSE, data |-> Some(slice0(table[license_key], limit))]
    ELSE IF outcome = "nonlist"
    THEN [error |-> FALSE, data |-> None]
    ELSE [error |-> TRUE, data |-> None]

\* data.map(x => ({id: x.id || "DB-" + x.created_at, time: x.created_at, ...}))
mapRow(x) ==
    [id |-> IF x.id = None THEN << "DB", x.created_at >> ELSE x.id,
     time |-> x.created_at, level |-> OrElse(x.level, "info"),
     type |-> OrElse(x.type, "log"), title |-> OrElse(x.title, "Server"),
     message |-> x.message, meta |-> x.meta, n |-> x.n]

mapRows(data) == [i \in DOMAIN data |-> mapRow(data[i])]

storeAnswers_nonEmpty(result, thrown) ==
    ~thrown /\ ~result.error /\ IsSome(result.data) /\ Get(result.data) # << >>

\* !error && Array.isArray(data), and no exception
storeAnswers(result, thrown) == ~thrown /\ ~result.error /\ IsSome(result.data)

(***************************************************************************)
(* POST /api/server/log                                                    *)
(***************************************************************************)
LogStart(license_key, level, message, rand) ==
    /\ IF license_key = "" \/ message = ""
       THEN /\ resp' = [kind |-> "log", status |-> 400, success |-> FALSE,
                        error |-> "MISSING_LICENSE_OR_MESSAGE"]
            /\ UNCHANGED << inflight, logVars >>
       ELSE /\ Cardinality(inflight) < MaxInflight
            /\ nLogged < MaxLogged
            /\ LET item == logItem(now, rand, level, "", "", message, None, nLogged + 1)
               IN  /\ serverLogs' = pushServerLog(serverLogs, license_key, item)
                   /\ Suspend([kind |-> "log", pc |-> "insert",
                               license_key |-> license_key, item |-> item])
            /\ nLogged' = nLogged + 1
            /\ resp' = NoResp
    /\ UNCHANGED << now, storeVars, liveVars, queueVars >>

\* await supabase.from("server_logs").insert([...]) inside try/catch, then
\* res.json({ success: true })
LogInsert(r, outcome) ==
    /\ r \in inflight /\ r.kind = "log" /\ r.pc = "insert"
    /\ server_logs' =
          IF outcome = "ok"
          THEN [server_logs EXCEPT ![r.license_key] =
                   << logRow(r.item, r.license_key, now) >> \o @]
          ELSE server_logs
    /\ Finish(r)
    /\ resp' = [kind |-> "log", status |-> 200, success |-> TRUE, req |-> r,
                outcome |-> outcome]
    /\ UNCHANGED << now, customers, panel_admins, bans, licenses, server_status,
                    liveVars, queueVars, logVars >>

(***************************************************************************)
(* GET /api/server/logs/:license                                           *)
(***************************************************************************)
\* the number of the event ingested last among those in list (history)
newestIn(list) ==
    IF list = << >> THEN None
    ELSE Some(CHOOSE n \in { list[i].n : i \in DOMAIN list } :
                  \A i \in DOMAIN list : list[i].n <= n)

\* ingests of the tenant that have not answered yet
Ingesting(license_key) ==
    { r \in inflight : r.kind = "log" /\ r.license_key = license_key }

LogRead(license_key, query) ==
    /\ Cardinality(inflight) < MaxInflight
    /\ Suspend([kind |-> "logs", pc |-> "select", license_key |-> license_key,
                query |-> query, limit |-> readLimit(query),
                \* history: the tenant's newest event, if its ingest has answered
                settled |-> IF Ingesting(license_key) = {}
                            THEN newestIn(logsOf(serverLogs, license_key))
                            ELSE None])
    /\ resp' = NoResp
    /\ UNCHANGED << now, storeVars, liveVars, queueVars, logVars >>

LogSelect(r, outcome) ==
    /\ r \in inflight /\ r.kind = "logs" /\ r.pc = "select"
    /\ LET result == selectLogs(server_logs, r.license_key, r.limit, outcome)
           mem == slice0(logsOf(serverLogs, r.license_key), r.limit)
           list == IF storeAnswers(result, outcome = "throw")
                   THEN mapRows(Get(result.data)) ELSE mem
       IN  resp' = [kind |-> "logs", status |-> 200, success |-> TRUE,
                    data |-> list, logs |-> list, req |-> r, outcome |-> outcome]
    /\ Finish(r)
    /\ UNCHANGED << now, storeVars, liveVars, queueVars, logVars >>

ReadOutcomes == {"ok", "error", "nonlist", "throw"}
WriteOutcomes == {"ok", "error", "throw"}
LimitQueries == {NoQuery, "1"}

InitLog ==
    /\ InitCommon /\ InitLive /\ InitLogs
    /\ actionQueue = [k \in Keys |-> None]
    /\ InitTables
    /\ \E old \in {<< >>, << legacyRow >>} :
          server_logs = [k \in Keys |-> IF k = "GG-A" THEN old ELSE << >>]

NextLog ==
    \/ \E license_key \in {"", "GG-A"}, level \in LogLevels, message \in Messages :
          LogStart(license_key, level, message, 0)
    \/ \E r \in inflight, outcome \in WriteOutcomes : LogInsert(r, outcome)
    \/ \E query \in LimitQueries : LogRead("GG-A", query)
    \/ \E r \in inflight, outcome \in ReadOutcomes : LogSelect(r, outcome)

SpecLog == InitLog /\ [][NextLog]_vars

(***************************************************************************)
(* The ingest burst: pushServerLog called BurstLog times in a row for      *)
(* tenant GG-A with events e1, e2, ...                                     *)
(***************************************************************************)
burstItem(i) == logItem(StartNow, i, "", "", "", "m", None, i)

IngestBurst ==
    /\ nLogged < BurstLog
    /\ serverLogs' = pushServerLog(serverLogs, "GG-A", burstItem(nLogged + 1))
    /\ nLogged' = nLogged + 1
    /\ resp' = NoResp
    /\ UNCHANGED << now, storeVars, liveVars, queueVars, inflight >>

NextLogBurst == IngestBurst

SpecLogBurst == Init /\ [][NextLogBurst]_vars

(***************************************************************************)
(* Properties of the action queue.                                         *)
(***************************************************************************)
\* how often the action numbered n occurs in sequence q of actions
CountIn(q, n) == Cardinality({ i \in DOMAIN q : q[i].n = n })

\* how often it sits in a queue, was handed to a poll, was removed by the trim
Queued(n) ==
    LET RECURSIVE Sum(_)
        Sum(K) == IF K = {} THEN 0
                  ELSE LET k == CHOOSE x \in K : TRUE
                       IN  CountIn(queueOf(actionQueue, k), n) + Sum(K \ {k})
    IN  Sum(Keys)
Delivered(n) == Cardinality({ i \in DOMAIN delivered : delivered[i][2].n = n })
Trimmed(n) == Cardinality({ a \in trimmed : a.n = n })

\* C1: under any interleaving of pushes (dashboard action, authorized lift)
\* and polls, every pushed command is in exactly one place: still queued,
\* handed to exactly one poll, or removed by the trim; no command is handed
\* out twice, none is lost, and a poll leaves nothing of its tenant behind,
\* so a command is returned by the first poll after its push and a command
\* pushed after a poll waits for the next one.
C1_ExactlyOnce ==
    /\ \A n \in 1..nPushed :
          /\ Queued(n) + Delivered(n) + Trimmed(n) = 1
          /\ Delivered(n) <= 1
    /\ resp.kind = "actions" =>
          /\ queueOf(actionQueue, resp.license_key) = << >>
          /\ \A i \in DOMAIN resp.actions : Delivered(resp.actions[i].n) = 1

\* a poll handed out a command and a later push to that tenant is waiting
C1_Witness ==
    \E k \in Keys :
        /\ Len(queueOf(actionQueue, k)) >= 1
        /\ delivered # << >>
        /\ delivered[1][1] = k
        /\ delivered[1][2].n < queueOf(actionQueue, k)[1].n

\* the queue after a push, computed from the policy: append, and if that
\* makes more than 200 entries, drop the 50 oldest at once
afterPush(q, c) ==
    IF Len(q) + 1 > 200
    THEN [i \in 1..(Len(q) + 1 - 50) |-> IF i + 50 <= Len(q) THEN q[i + 50] ELSE c]
    ELSE [i \in 1..(Len(q) + 1) |-> IF i <= Len(q) THEN q[i] ELSE c]

\* what the first poll returns after N pushes of c1..cN (N at most 250)
firstPoll(N) ==
    IF N <= 200
    THEN [i \in 1..N |-> burstAction(i)]
    ELSE [i \in 1..(N - 50) |-> burstAction(i + 50)]

\* C2: a push appends at the tail and, only when the resulting length is
\* greater than 200, removes the 50 oldest entries in one step; after N
\* pushes of c1..cN with no poll in between, the poll returns c1..cN for
\* N <= 200 and c51..cN after the single trim (160 commands for N = 210).
C2_BatchedTrim ==
    [][ /\ nPushed' = nPushed + 1 =>
              queueOf(actionQueue', "GG-A")
                  = afterPush(queueOf(actionQueue, "GG-A"), burstAction(nPushed'))
        /\ (resp'.kind = "actions" /\ delivered = << >>) =>
              resp'.actions = firstPoll(nPushed) ]_vars

\* the poll after 210 pushes returned the 160 commands c51..c210
C2_Witness ==
    /\ resp.kind = "actions"
    /\ nPushed = 210
    /\ Len(resp.actions) = 160
    /\ resp.actions[1] = burstAction(51)
    /\ resp.actions[160] = burstAction(210)
    /\ Cardinality(trimmed) = 50

\* C3: every tenant's queue holds at most 200 commands, in the order in
\* which the retained commands were pushed.
C3_BoundedFifo ==
    \A k \in Keys :
        LET q == queueOf(actionQueue, k)
        IN  /\ Len(q) <= 200
            /\ \A i, j \in DOMAIN q : i < j => q[i].n < q[j].n

\* the trim has fired: 201 entries became 151, the oldest 50 are gone
C3_Witness ==
    /\ Cardinality(trimmed) = 50
    /\ Len(queueOf(actionQueue, "GG-A")) >= 151
    /\ nPushed >= 1

\* C4: a poll returns the tenant's entire queue in insertion order and
\* leaves it empty (other tenants' queues untouched); a poll right after a
\* poll of the same tenant returns nothing; a tenant that has no queue gets
\* an empty list with status 200, not an error.
C4_DrainAll ==
    [][ resp'.kind = "actions" =>
          LET k == resp'.license_key
          IN  /\ resp'.status = 200 /\ resp'.success
              /\ resp'.actions = queueOf(actionQueue, k)
              /\ IsSome(actionQueue'[k]) /\ Get(actionQueue'[k]) = << >>
              /\ \A j \in Keys \ {k} : actionQueue'[j] = actionQueue[j]
              /\ (actionQueue[k] = None => resp'.actions = << >>)
              /\ (resp.kind = "actions" /\ resp.license_key = k) => resp'.actions = << >>
      ]_vars

\* a poll returned a queue of two commands at once, oldest first
C4_Witness ==
    /\ resp.kind = "actions"
    /\ Len(resp.actions) = 2
    /\ resp.actions[1].n < resp.actions[2].n
    /\ actionQueue[resp.license_key] = Some(<< >>)

(***************************************************************************)
(* Properties of the logs.                                                 *)
(***************************************************************************)
\* C5: the buffer holds at most 300 events, newest first: after n ingests
\* of e1..en it is en, e(n-1), ... down to the 300th newest, so each ingest
\* put its event at the head and only the tail was dropped; after 310
\* ingests it is e310..e11.
C5_NewestFirst ==
    LET q == logsOf(serverLogs, "GG-A")
    IN  /\ Len(q) <= 300
        /\ Len(q) = Min(nLogged, 300)
        /\ \A i \in DOMAIN q : q[i] = burstItem(nLogged + 1 - i)

\* 310 events are in: the buffer is e310..e11
C5_Witness ==
    LET q == logsOf(serverLogs, "GG-A")
    IN  /\ nLogged = 310
        /\ Len(q) = 300
        /\ q[1].n = 310
        /\ q[300].n = 11

\* a store row in the common shape, missing level/type/title defaulted
asLogEvent(x) ==
    [id |-> IF x.id = None THEN << "DB", x.created_at >> ELSE x.id,
     time |-> x.created_at,
     level |-> IF x.level = "" THEN "info" ELSE x.level,
     type |-> IF x.type = "" THEN "log" ELSE x.type,
     title |-> IF x.title = "" THEN "Server" ELSE x.title,
     message |-> x.message, meta |-> x.meta, n |-> x.n]

\* the store read failed: an error, a non-list, or an exception
FellBack(outcome) == outcome \in {"error", "nonlist", "throw"}

\* C6: a log read returns the store's list, in the common shape, whenever
\* the store read succeeds with a list (also an empty one), whatever the
\* buffer holds; it returns the buffer's newest entries exactly when the
\* store read returned an error, a non-list, or threw.
C6_StoreFirst ==
    resp.kind = "logs" =>
        LET k == resp.req.license_key
            lim == Get(resp.req.limit)
            rows == server_logs[k]
            mem == logsOf(serverLogs, k)
        IN  IF FellBack(resp.outcome)
            THEN resp.logs = [i \in 1..Min(lim, Len(mem)) |-> mem[i]]
            ELSE resp.logs = [i \in 1..Min(lim, Len(rows)) |-> asLogEvent(rows[i])]

\* the store answered with an empty list while the buffer holds an event,
\* and the read returned the empty list
C6_Witness ==
    /\ resp.kind = "logs"
    /\ resp.outcome = "ok"
    /\ resp.logs = << >>
    /\ logsOf(serverLogs, resp.req.license_key) # << >>

\* a read of limit >= 1 issued after the tenant's newest ingest answered,
\* with no ingest of that tenant since
ReadAfterIngest ==
    /\ resp.kind = "logs"
    /\ IsSome(resp.req.settled)
    /\ resp.req.limit # None /\ Get(resp.req.limit) >= 1
    /\ newestIn(logsOf(serverLogs, resp.req.license_key)) = resp.req.settled

\* C7 as claimed: after an ingest returned success, a read of limit >= 1
\* issued before any further ingest returns that event first, whatever the
\* outcome of the store write.
C7_Claimed ==
    ReadAfterIngest =>
        /\ resp.logs # << >>
        /\ resp.logs[1].n = Get(resp.req.settled)

\* C7 as amended: that holds for the reads that fall back to the buffer
\* (the store read returned an error, a non-list, or threw).
C7_FallbackNewest ==
    (ReadAfterIngest /\ FellBack(resp.outcome)) =>
        /\ resp.logs # << >>
        /\ resp.logs[1].n = Get(resp.req.settled)

\* a read fell back to the buffer and returned the newest of two events
\* first, although the store never got that event
C7_Witness ==
    /\ ReadAfterIngest /\ FellBack(resp.outcome)
    /\ Get(resp.req.settled) = 2
    /\ resp.logs[1].n = 2
    /\ \A i \in DOMAIN server_logs[resp.req.license_key] :
          server_logs[resp.req.license_key][i].n # 2

(***************************************************************************)
(* Properties of the liveness tracker.                                     *)
(***************************************************************************)
\* C8: status reports online exactly when a liveness record exists and
\* less than 30 seconds passed since its last_seen: online right after a
\* heartbeat, offline once 30000 ms or more have passed, by the clock
\* alone; a tenant without a record gets online=false, players=0, uptime=0,
\* version=null with status 200.
C8_OnlineWindow ==
    resp.kind = "status" =>
        LET data == serverState[resp.license_key]
        IN  /\ resp.status = 200
            /\ resp.online <=> (IsSome(data) /\ now - Get(data).last_seen < 30000)
            /\ (IsSome(data) /\ Get(data).last_seen = now) => resp.online
            /\ data = None =>
                  /\ ~resp.online
                  /\ resp.players = 0 /\ resp.uptime = 0
                  /\ resp.version = None /\ resp.last_seen = None

\* exactly 30000 ms after the tenant's only heartbeat, with nothing else
\* done for that tenant since, status says offline
C8_Witness ==
    /\ resp.kind = "status"
    /\ ~resp.online
    /\ IsSome(serverState[resp.license_key])
    /\ now - Get(serverState[resp.license_key]).last_seen = 30000
    /\ nBeats = 1

\* the heartbeat requests taken by this step
BeatsTaken == { r \in inflight' \ inflight : r.kind = "heartbeat" }

HasLicense(license_key) == \E l \in licenses : l.license_key = license_key

\* C9: a heartbeat with a license_key replaces the tenant's roster and
\* liveness record wholesale (roster = the presented players, or empty;
\* last_seen = now; players = the roster's length; uptime and version as
\* presented, 0 and null if not presented) and answers success, whatever
\* the license row says and whatever the store does with the mirror write.
C9_Wholesale ==
    [][ /\ \A r \in BeatsTaken :
              /\ livePlayersByLicense'[r.license_key]
                    = Some(IF IsSome(r.players) THEN Get(r.players) ELSE << >>)
              /\ serverState'[r.license_key]
                    = Some([last_seen |-> now,
                            players |-> IF IsSome(r.players) THEN Len(Get(r.players)) ELSE 0,
                            uptime |-> IF IsSome(r.uptime) THEN Get(r.uptime) ELSE 0,
                            version |-> IF r.version = "" THEN None ELSE Some(r.version)])
        /\ (resp'.kind = "heartbeat" /\ resp'.req.license_key # "") =>
              /\ resp'.status = 200 /\ resp'.success
              /\ resp'.req \in inflight
      ]_vars

\* a key without a license row had a full record and roster; a heartbeat
\* that presents nothing but the key has replaced both
C9_Witness ==
    /\ ~HasLicense("GG-X")
    /\ nBeats = 2
    /\ livePlayersByLicense["GG-X"] = Some(<< >>)
    /\ IsSome(serverState["GG-X"])
    /\ Get(serverState["GG-X"]).uptime = 0
    /\ Get(serverState["GG-X"]).version = None
    /\ IsSome(server_status["GG-X"])
    /\ Get(server_status["GG-X"]).uptime = 120

(***************************************************************************)
(* Properties of the authorized lift.                                      *)
(***************************************************************************)
banRow(table, banId) == CHOOSE b \in table : b.ban_id = banId

\* the step enqueued exactly one unban command for banId, into the queue of
\* license_key and into no other
EnqueuedUnban(license_key, banId) ==
    LET q == queueOf(actionQueue, license_key)
        q2 == queueOf(actionQueue', license_key)
    IN  /\ Len(q2) = Len(q) + 1
        /\ SubSeq(q2, 1, Len(q)) = q
        /\ q2[Len(q2)].type = "unban"
        /\ q2[Len(q2)].payload = {<< "ban_id", banId >>}
        /\ \A k \in Keys \ {license_key} : actionQueue'[k] = actionQueue[k]

\* C10: for a ban that exists and that the handler's lookup finds, a lift
\* has exactly three outcomes: UNAUTHORIZED with no ban changed and nothing
\* enqueued; FORBIDDEN, for an identity of another license_key, with no ban
\* changed and nothing enqueued; or success, for an identity of the ban's
\* license_key, with the ban's expires_at set to the time of a lift of it
\* (lifts of one ban may overlap) and exactly one unban command for that ban enqueued for the ban's tenant only.
C10_ThreeOutcomes ==
    [][ (/\ resp'.kind = "lift"
         /\ \E b \in bans : b.ban_id = resp'.req.banId
         /\ ~(resp'.status = 200 /\ ~resp'.success))
        =>
        LET r == resp'.req
            ban == banRow(bans', r.banId)
        IN  \/ /\ resp'.status = 401 /\ resp'.error = "UNAUTHORIZED"
               /\ UNCHANGED << bans, actionQueue >>
            \/ /\ resp'.status = 403 /\ resp'.error = "FORBIDDEN"
               /\ r.identity.license_key # ban.license_key
               /\ UNCHANGED << bans, actionQueue >>
            \/ /\ resp'.status = 200 /\ resp'.success
               /\ r.identity.license_key = ban.license_key
               /\ IsSome(ban.expires_at)
               /\ StartNow <= Get(ban.expires_at) /\ Get(ban.expires_at) <= now
               /\ \A b \in bans' : b.ban_id # r.banId => b \in Bans0
               /\ EnqueuedUnban(ban.license_key, r.banId)
      ]_vars

(***************************************************************************)
(* POST /api/license/verify, split at its three store calls.               *)
(***************************************************************************)
MaxVerifying == 1       \* verify requests suspended at the same time
MaxRacing == 2          \* verify requests suspended at the same time in the race
VerifyTicks == 1        \* milliseconds that pass in the verify specification

Hwids == {"hw-1", "hw-2"}
LICENSE_SECRET == "secret"

\* supabase.from("licenses").select("*").eq("license_key", license_key).single(),
\* with the columns the handler goes on to use
licenseLookup(table, license_key, outcome) ==
    LET rows == { l \in table : l.license_key = license_key }
    IN  IF outcome = "ok" /\ Cardinality(rows) = 1
        THEN { [id |-> l.id, status |-> l.status, expires_at |-> l.expires_at,
                hwid |-> l.hwid] : l \in rows }
        ELSE {}

\* lic.expires_at && new Date(lic.expires_at) < new Date()
isExpired(expires_at, t) == IsSome(expires_at) /\ Get(expires_at) < t

\* lic.hwid is set, hwid is presented, and lic.hwid !== hwid
hwidConflict(stored, hwid) == IsSome(stored) /\ IsSome(hwid) /\ stored # hwid

\* the reason verify gives for lic, read at time t, in the order of its returns
verifyReason_hwidFirst(found, hwid, t) ==
    IF found = {} THEN "NOT_FOUND"
    ELSE LET lic == CHOOSE l \in found : TRUE
         IN  IF hwidConflict(lic.hwid, hwid) THEN "HWID_MISMATCH"
             ELSE IF lic.status # "ACTIVE" THEN lic.status
             ELSE IF isExpired(lic.expires_at, t) THEN "EXPIRED"
             ELSE ""

verifyReason(found, hwid, t) ==
    IF found = {} THEN "NOT_FOUND"
    ELSE LET lic == CHOOSE l \in found : TRUE
         IN  IF lic.status # "ACTIVE" THEN lic.status
             ELSE IF isExpired(lic.expires_at, t) THEN "EXPIRED"
             ELSE IF hwidConflict(lic.hwid, hwid) THEN "HWID_MISMATCH"
             ELSE ""

\* .update({ hwid }).eq("id", lic.id), as the store applies it
bindHwid(table, id, hwid, outcome) ==
    IF outcome = "ok"
    THEN { IF l.id = id THEN [l EXCEPT !.hwid = hwid] ELSE l : l \in table }
    ELSE table

\* .update({ last_seen: new Date().toISOString() }).eq("id", lic.id)
touchLastSeen(table, id, ts, outcome) ==
    IF outcome = "ok"
    THEN { IF l.id = id THEN [l EXCEPT !.last_seen = Some(ts)] ELSE l : l \in table }
    ELSE table

\* history: the first valid verify that presented an hwid to an unbound license
noteFirst(table, r) ==
    { IF l.id = Get(r.lic).id /\ l.first = None /\ Get(r.lic).hwid = None /\ IsSome(r.hwid)
      THEN [l EXCEPT !.first = r.hwid] ELSE l : l \in table }

verifyPayload(license_key, lic, t) ==
    [license_key |-> license_key, status |-> lic.status, expires_at |-> lic.expires_at,
     issued_at |-> t]

\* JSON.stringify of a string: quoted, with quote and backslash escaped
RECURSIVE jsonEscape(_)
jsonEscape(str) ==
    IF str = "" THEN ""
    ELSE LET c == SubSeq(str, 1, 1)
         IN  (IF c = "\"" THEN "\\\"" ELSE IF c = "\\" THEN "\\\\" ELSE c)
             \o jsonEscape(SubSeq(str, 2, Len(str)))

jsonString(str) == "\"" \o jsonEscape(str) \o "\""

\* JSON.stringify of lic.expires_at: null, or the timestamp text of the column
jsonExpiry(expires_at) ==
    IF expires_at = None THEN "null" ELSE jsonString(ToString(Get(expires_at)))

stringify_bare(assertion) ==
    assertion.license_key \o assertion.status
       \o (IF assertion.expires_at = None THEN "null"
           ELSE ToString(Get(assertion.expires_at)))
       \o ToString(assertion.issued_at)

\* JSON.stringify({ license_key, status, expires_at, issued_at })
stringify(assertion) ==
    "{\"license_key\":" \o jsonString(assertion.license_key)
       \o ",\"status\":" \o jsonString(assertion.status)
       \o ",\"expires_at\":" \o jsonExpiry(assertion.expires_at)
       \o ",\"issued_at\":" \o ToString(assertion.issued_at) \o "}"

\* crypto.createHmac("sha256", LICENSE_SECRET).update(payload).digest("hex")
hmac(secret, payload) == << "hmac", secret, payload >>

Verifying == { r \in inflight : r.kind = "verify" }

verifyFailed(r, status, reason) ==
    [kind |-> "verify", status |-> status, valid |-> FALSE, reason |-> reason, req |-> r]
\* history: what the first valid verify of the license presented, None so far
firstOf(table, license_key) ==
    LET rows == { l \in table : l.license_key = license_key }
    IN  IF rows = {} THEN None ELSE (CHOOSE l \in rows : TRUE).first

\* a verify call arrives while fewer than limit are in progress
VerifyCall(license_key, hwid, limit) ==
    /\ IF license_key = ""
       THEN /\ resp' = verifyFailed([kind |-> "verify", license_key |-> license_key,
                                     hwid |-> hwid], 400, "MISSING_KEY")
            /\ UNCHANGED inflight
       ELSE /\ Cardinality(Verifying) < limit
            /\ Suspend([kind |-> "verify", pc |-> "select", license_key |-> license_key,
                        hwid |-> hwid, lic |-> None, at |-> 0, ts |-> 0,
                        \* history: the license's first, whether every store
                        \* call succeeded, and which of the two writes were applied
                        first |-> firstOf(licenses, license_key), clean |-> TRUE,
                        bound |-> FALSE, touched |-> FALSE])
            /\ resp' = NoResp
    /\ UNCHANGED << now, storeVars, liveVars, queueVars, logVars >>

VerifyStart(license_key, hwid) == VerifyCall(license_key, hwid, MaxVerifying)

\* the select returns; the handler runs up to its next await or its return
VerifySelect(r, outcome) ==
    /\ r \in inflight /\ r.kind = "verify" /\ r.pc = "select"
    /\ LET found == licenseLookup(licenses, r.license_key, outcome)
           reason == verifyReason(found, r.hwid, now)
           r1 == [r EXCEPT !.clean = (outcome = "ok"), !.at = now, !.ts = now,
                           !.lic = IF found = {} THEN None
                                   ELSE Some(CHOOSE l \in found : TRUE)]
       IN  IF outcome = "throw"
           THEN /\ Finish(r)
                /\ resp' = verifyFailed(r1, 500, "SERVER_ERROR")
           ELSE IF reason # ""
           THEN /\ Finish(r)
                /\ resp' = verifyFailed(r1, 200, reason)
           ELSE /\ Move(r, [r1 EXCEPT !.pc = IF Get(r1.lic).hwid = None /\ IsSome(r.hwid)
                                             THEN "bind" ELSE "seen"])
                /\ resp' = NoResp
    /\ UNCHANGED << now, storeVars, liveVars, queueVars, logVars >>

\* await supabase.from("licenses").update({ hwid }).eq("id", lic.id); the
\* handler does not look at the result
VerifyBind(r, outcome) ==
    /\ r \in inflight /\ r.kind = "verify" /\ r.pc = "bind"
    /\ IF outcome = "throw"
       THEN /\ Finish(r)
            /\ resp' = verifyFailed([r EXCEPT !.clean = FALSE], 500, "SERVER_ERROR")
            /\ UNCHANGED licenses
       ELSE /\ licenses' = bindHwid(licenses, Get(r.lic).id, r.hwid, outcome)
            /\ Move(r, [r EXCEPT !.pc = "seen", !.ts = now,
                                 !.clean = r.clean /\ outcome = "ok",
                                 !.bound = (outcome = "ok")])
            /\ resp' = NoResp
    /\ UNCHANGED << now, customers, panel_admins, bans, server_logs, server_status,
                    liveVars, queueVars, logVars >>

\* await supabase.from("licenses").update({ last_seen }).eq("id", lic.id), then
\* the signed payload
VerifySeen(r, outcome) ==
    /\ r \in inflight /\ r.kind = "verify" /\ r.pc = "seen"
    /\ Finish(r)
    /\ LET r1 == [r EXCEPT !.clean = r.clean /\ outcome = "ok",
                           !.touched = (outcome = "ok")]
           payload == stringify(verifyPayload(r.license_key, Get(r.lic), now))
       IN  IF outcome = "throw"
           THEN /\ resp' = verifyFailed(r1, 500, "SERVER_ERROR")
                /\ UNCHANGED licenses
           ELSE /\ licenses' = noteFirst(touchLastSeen(licenses, Get(r.lic).id, r.ts,
                                                       outcome), r)
                /\ resp' = [kind |-> "verify", status |-> 200, valid |-> TRUE,
                            reason |-> "", payload |-> payload,
                            signature |-> hmac(LICENSE_SECRET, payload), req |-> r1,
                            \* history: the clock value that was signed
                            issued_at |-> now]
    /\ UNCHANGED << now, customers, panel_admins, bans, server_logs, server_status,
                    liveVars, queueVars, logVars >>

\* the licenses verify is asked about: GG-A in every combination of status,
\* expiry and binding, next to the suspended GG-B and the unknown GG-X
VerifyLicenses ==
    { { [id |-> "lic-A", license_key |-> "GG-A", status |-> st, expires_at |-> ex,
         hwid |-> hw, last_seen |-> None, first |-> None] }
      \cup { l \in Licenses0 : l.license_key = "GG-B" } :
      st \in {"ACTIVE", "SUSPENDED"},
      ex \in {None, Some(StartNow)},
      hw \in {None, Some("hw-1")} }

InitVerify ==
    /\ InitCommon /\ InitLive /\ InitLogs
    /\ actionQueue = [k \in Keys |-> None]
    /\ customers = Customers0 /\ panel_admins = PanelAdmins0 /\ bans = Bans0
    /\ server_status = [k \in Keys |-> None]
    /\ server_logs = [k \in Keys |-> << >>]
    /\ licenses \in VerifyLicenses

VerifyKeys == {"", "GG-A", "GG-X"}

NextVerify ==
    \/ Tick(1, VerifyTicks)
    \/ \E license_key \in VerifyKeys, hwid \in {None} \cup { Some(h) : h \in Hwids } :
          VerifyStart(license_key, hwid)
    \/ \E r \in inflight, outcome \in WriteOutcomes : VerifySelect(r, outcome)
    \/ \E r \in inflight, outcome \in WriteOutcomes : VerifyBind(r, outcome)
    \/ \E r \in inflight, outcome \in WriteOutcomes : VerifySeen(r, outcome)

SpecVerify == InitVerify /\ [][NextVerify]_vars
(***************************************************************************)
(* Properties of verify.                                                   *)
(***************************************************************************)
\* the step answers a verify that read a license
VerifyAnswered == resp'.kind = "verify" /\ resp'.req.license_key # "" /\ IsSome(resp'.req.lic)

\* the license the answered verify read was ACTIVE and not expired
ReadUsable(r) ==
    Get(r.lic).status = "ACTIVE" /\ ~isExpired(Get(r.lic).expires_at, r.at)

hwidOf(table, license_key) == (CHOOSE l \in table : l.license_key = license_key).hwid

\* C11: on an ACTIVE, non-expired license, the first verify that presents
\* an hwid while the license is unbound and is answered valid has bound that
\* hwid; and a verify that starts after that answer, reads the license as
\* still usable and has all its store calls succeed is answered
\* HWID_MISMATCH if it presents a different hwid and valid if it presents
\* the same one.
C11_BindFirst ==
    [][ (VerifyAnswered /\ ReadUsable(resp'.req) /\ IsSome(resp'.req.hwid))
        =>
        LET r == resp'.req
        IN  /\ (/\ resp'.valid
                /\ Get(r.lic).hwid = None
                /\ firstOf(licenses, r.license_key) = None)
               => hwidOf(licenses', r.license_key) = r.hwid
            /\ (IsSome(r.first) /\ r.clean)
               => IF r.hwid = r.first
                  THEN resp'.valid
                  ELSE ~resp'.valid /\ resp'.reason = "HWID_MISMATCH"
      ]_vars
\* C12: a verify is answered valid only if the license it read has status
\* ACTIVE, has no expires_at or one later than the time of the read, and has
\* no hwid or the hwid the request presents.
C12_ValidOnlyIf ==
    (resp.kind = "verify" /\ resp.valid)
    => LET r == resp.req
           lic == Get(r.lic)
       IN  /\ lic.status = "ACTIVE"
           /\ (lic.expires_at = None \/ Get(lic.expires_at) > r.at)
           /\ (lic.hwid = None \/ lic.hwid = r.hwid)

\* the reason the stated order gives, with "no record matches" read off the table
reasonByTable(table, r) ==
    LET rows == { l \in table : l.license_key = r.license_key }
    IN  IF r.license_key = "" THEN "MISSING_KEY"
        ELSE IF rows = {} THEN "NOT_FOUND"
        ELSE LET l == CHOOSE x \in rows : TRUE
             IN  IF l.status # "ACTIVE" THEN l.status
                 ELSE IF IsSome(l.expires_at) /\ Get(l.expires_at) < now THEN "EXPIRED"
                 ELSE IF IsSome(l.hwid) /\ IsSome(r.hwid) /\ l.hwid # r.hwid
                      THEN "HWID_MISMATCH"
                 ELSE ""

\* the reason the stated order gives, with "no record" as what the lookup returned
reasonByLookup(r) ==
    IF r.license_key = "" THEN "MISSING_KEY"
    ELSE IF r.lic = None THEN "NOT_FOUND"
    ELSE LET l == Get(r.lic)
         IN  IF l.status # "ACTIVE" THEN l.status
             ELSE IF IsSome(l.expires_at) /\ Get(l.expires_at) < r.at THEN "EXPIRED"
             ELSE IF IsSome(l.hwid) /\ IsSome(r.hwid) /\ l.hwid # r.hwid
                  THEN "HWID_MISMATCH"
             ELSE ""

\* the step answers a verify with a failure of the stated list, or finds
\* nothing to fail on and goes on to the writes
VerifyDecided ==
    \/ resp'.kind = "verify" /\ ~resp'.valid /\ resp'.reason # "SERVER_ERROR"
    \/ \E r \in inflight' \ inflight : r.kind = "verify" /\ r.pc \in {"bind", "seen"}

decidedReq == IF resp'.kind = "verify" THEN resp'.req
              ELSE CHOOSE r \in inflight' \ inflight : TRUE

decidedReason == IF resp'.kind = "verify" THEN resp'.reason ELSE ""

C17_AllOrNothing ==
    (resp.kind = "verify" /\ resp.req.license_key # "")
    => LET r == resp.req
       IN  IF resp.valid
           THEN /\ r.touched
                /\ (Get(r.lic).hwid = None /\ IsSome(r.hwid)) => r.bound
           ELSE ~r.touched /\ ~r.bound
(***************************************************************************)
(* resolvePanelIdentity(token) called on its own.                          *)
(***************************************************************************)
\* if (!token) return null, else the first store query
ResolveStart(token) ==
    /\ IF token = NoToken
       THEN /\ resp' = [kind |-> "identity", identity |-> NoIdentity,
                        req |-> [kind |-> "resolve", token |-> token, probes |-> << >>]]
            /\ UNCHANGED inflight
       ELSE /\ Cardinality(inflight) < MaxInflight
            /\ Suspend([kind |-> "resolve", pc |-> "customers", token |-> token,
                        probes |-> << >>])
            /\ resp' = NoResp
    /\ UNCHANGED << now, storeVars, liveVars, queueVars, logVars >>

\* an active admin of GG-A whose invite token is the id of GG-B's owner record
ClashingAdmin ==
    [id |-> "adm-C", license_key |-> "GG-A", token_hash |-> sha256("cust-B"),
     active |-> TRUE]

InitResolve ==
    /\ InitCommon /\ InitLive /\ InitLogs
    /\ actionQueue = [k \in Keys |-> None]
    /\ customers = Customers0 /\ bans = Bans0 /\ licenses = Licenses0
    /\ server_status = [k \in Keys |-> None]
    /\ server_logs = [k \in Keys |-> << >>]
    /\ panel_admins \in {PanelAdmins0, PanelAdmins0 \cup {ClashingAdmin}}

NextResolve ==
    \/ \E token \in Tokens \cup {NoToken} : ResolveStart(token)
    \/ \E r \in inflight, outcome \in StoreOutcomes : ResolveCustomers(r, outcome)
    \/ \E r \in inflight, outcome \in StoreOutcomes : ResolveAdmins(r, outcome)

SpecResolve == InitResolve /\ [][NextResolve]_vars

(***************************************************************************)
(* Properties of the resolver.                                             *)
(***************************************************************************)
Owner(license_key) == [kind |-> "customer", license_key |-> license_key]
Admin(license_key) == [kind |-> "admin", license_key |-> license_key]

ownersOf(token) == { u \in customers : u.id = token }
activeAdminsOf(token) ==
    { a \in panel_admins : a.token_hash = sha256(token) /\ a.active }

Tenants == {"GG-A", "GG-B"}
MaxOps == 3             \* heartbeats, pushes and ingests taken altogether

\* heartbeats, pushes and ingests taken or on their way
OpsTaken == nBeats + nLogged + nPushed + Cardinality(Pushers)

NextTenants ==
    \/ /\ OpsTaken < MaxOps
       /\ \/ \E license_key \in Tenants :
                HeartbeatStart(license_key, Some(<< Player(1) >>), "3.1.0", Some(120))
          \/ \E token \in {"cust-A", "cust-B"} :
                DashboardActionStart(token, "kick", NoPayload)
          \/ \E license_key \in Tenants : LogStart(license_key, "", "m", 0)
    \/ \E r \in inflight : HeartbeatUpsert(r, "error")
    \/ \E r \in inflight : ResolveCustomers(r, "ok")
    \/ \E license_key \in Tenants : Drain(license_key)
    \/ \E r \in inflight : LogInsert(r, "error")

SpecTenants == Init /\ [][NextTenants]_vars

\* the tenant the step's heartbeat, push, poll or ingest is addressed to
Addressed ==
    IF \E r \in inflight' \ inflight : r.kind \in {"heartbeat", "log"}
    THEN (CHOOSE r \in inflight' \ inflight : r.kind \in {"heartbeat", "log"}).license_key
    ELSE IF resp'.kind = "actions" THEN resp'.license_key
    ELSE IF resp'.kind = "action" /\ resp'.success THEN resp'.license_key
    ELSE IF resp'.kind = "lift" /\ resp'.success THEN resp'.req.ban_key
    ELSE ""

SamePartition(k) ==
    /\ serverState'[k] = serverState[k]
    /\ livePlayersByLicense'[k] = livePlayersByLicense[k]
    /\ actionQueue'[k] = actionQueue[k]
    /\ serverLogs'[k] = serverLogs[k]

\* C15: every step leaves the liveness record, the roster, the command
\* queue and the log buffer of every tenant unchanged, except those of the
\* tenant its heartbeat, push, poll or ingest is addressed to.
C15_Partitioned ==
    [][ \A k \in Keys : k # Addressed => SamePartition(k) ]_vars

\* GG-B has a queued command and a log event of its own, and no liveness
\* record, when a heartbeat of GG-A is taken
C15_Witness ==
    /\ queueOf(actionQueue, "GG-B") # << >>
    /\ logsOf(serverLogs, "GG-B") # << >>
    /\ serverState["GG-B"] = None /\ livePlayersByLicense["GG-B"] = None
    /\ \E r \in inflight : r.kind = "heartbeat" /\ r.license_key = "GG-A"
    /\ serverState["GG-A"] # None /\ actionQueue["GG-A"] = None

(***************************************************************************)
(* computeExpiresAt(duration, explicitExpiresAt).  Texts are strings; a    *)
(* date is the millisecond instant it denotes, and toISOString() of a date *)
(* is written as that instant.                                             *)
(***************************************************************************)
MinuteMs == 60000       \* amount * 60_000
HourMs == 3600000       \* amount * 3_600_000
DayMs == 86400000       \* amount * 86_400_000

UpperCase == "ABCDEFGHIJKLMNOPQRSTUVWXYZ"
LowerCase == "abcdefghijklmnopqrstuvwxyz"
Digits == "0123456789"

charAt(str, i) == SubSeq(str, i, i)

\* 0 if c does not occur in str, else its first position
indexOf(str, c) ==
    IF \E i \in 1..Len(str) : charAt(str, i) = c
    THEN CHOOSE i \in 1..Len(str) :
            charAt(str, i) = c /\ \A j \in 1..(i - 1) : charAt(str, j) # c
    ELSE 0

RECURSIVE toLowerCase(_)
toLowerCase(str) ==
    IF str = "" THEN ""
    ELSE LET c == charAt(str, 1)
             u == indexOf(UpperCase, c)
         IN  (IF u > 0 THEN charAt(LowerCase, u) ELSE c)
             \o toLowerCase(SubSeq(str, 2, Len(str)))

RECURSIVE trim(_)
trim(str) ==
    IF str = "" THEN ""
    ELSE IF charAt(str, 1) = " " THEN trim(SubSeq(str, 2, Len(str)))
    ELSE IF charAt(str, Len(str)) = " " THEN trim(SubSeq(str, 1, Len(str) - 1))
    ELSE str

\* /^\d+$/
isDigits(str) ==
    str # "" /\ \A i \in 1..Len(str) : indexOf(Digits, charAt(str, i)) > 0

\* Number(match[1]) for a text of digits
RECURSIVE Number(_)
Number(str) ==
    IF str = "" THEN 0
    ELSE 10 * Number(SubSeq(str, 1, Len(str) - 1))
         + (indexOf(Digits, charAt(str, Len(str))) - 1)

\* raw.match(/^(\d+)([mhd])$/)
matchesAmountUnit(raw) ==
    /\ Len(raw) >= 2
    /\ isDigits(SubSeq(raw, 1, Len(raw) - 1))
    /\ charAt(raw, Len(raw)) \in {"m", "h", "d"}

unitMs(unit) == IF unit = "m" THEN MinuteMs ELSE IF unit = "h" THEN HourMs ELSE DayMs

\* x || dflt for a text that may be absent
textOr(x, dflt) == IF x = None \/ Get(x) = "" THEN dflt ELSE Get(x)

\* new Date(value): the instant a date text denotes, None for an Invalid Date
newDate(value) ==
    IF value.form = "iso" THEN Some(value.at - value.offset * MinuteMs) ELSE None

returned(value) == [thrown |-> FALSE, value |-> value]
\* toISOString() of an Invalid Date throws a RangeError
thrownError == [thrown |-> TRUE, value |-> None]

durationExpiry(duration, t) ==
    LET raw == toLowerCase(trim(textOr(duration, "P")))
    IN  IF raw \in {"p", "perm", "permanent"} THEN returned(None)
        ELSE IF ~matchesAmountUnit(raw) THEN returned(None)
        ELSE returned(Some(t + Number(SubSeq(raw, 1, Len(raw) - 1))
                                  * unitMs(charAt(raw, Len(raw)))))

computeExpiresAt_durationFirst(duration, explicitExpiresAt, t) ==
    IF durationExpiry(duration, t).value # None \/ explicitExpiresAt = None
    THEN durationExpiry(duration, t)
    ELSE IF newDate(Get(explicitExpiresAt)) = None THEN thrownError
    ELSE returned(newDate(Get(explicitExpiresAt)))

computeExpiresAt(duration, explicitExpiresAt, t) ==
    IF explicitExpiresAt # None
    THEN IF newDate(Get(explicitExpiresAt)) = None THEN thrownError
         ELSE returned(newDate(Get(explicitExpiresAt)))
    ELSE durationExpiry(duration, t)
(***************************************************************************)
(* POST /api/server/ban.  A ban row is written with the columns the        *)
(* handlers of this model read: ban_id, license_key, expires_at.           *)
(***************************************************************************)
MaxBans == 1            \* bans created on top of the initial ones

Banning == { r \in inflight : r.kind = "ban" }

\* ban_id || ("GG-" + Date.now())
finalBanId(ban_id, t) == IF ban_id = None THEN "GG-" \o ToString(t) ELSE Get(ban_id)

BanCreateStart(license_key, player, ban_id, duration, expires_at) ==
    LET finalDuration == Some(textOr(duration, "P"))
        finalExpiresAt == computeExpiresAt(finalDuration, expires_at, now)
        r == [kind |-> "ban", pc |-> "insert", license_key |-> license_key,
              ban_id |-> finalBanId(ban_id, now), duration |-> duration,
              explicit |-> expires_at, expires_at |-> finalExpiresAt.value, at |-> now]
    IN  /\ IF license_key = "" \/ player = ""
           THEN /\ resp' = [kind |-> "ban", status |-> 400, success |-> FALSE,
                            req |-> [r EXCEPT !.pc = "fields"]]
                /\ UNCHANGED inflight
           ELSE IF finalExpiresAt.thrown
           THEN /\ resp' = [kind |-> "ban", status |-> 500, success |-> FALSE,
                            req |-> [r EXCEPT !.pc = "compute"]]
                /\ UNCHANGED inflight
           ELSE /\ Cardinality(inflight) < MaxInflight
                /\ Cardinality(bans) + Cardinality(Banning) < Cardinality(Bans0) + MaxBans
                /\ Suspend(r)
                /\ resp' = NoResp
        /\ UNCHANGED << now, storeVars, liveVars, queueVars, logVars >>

\* supabase.from("bans").insert([{...}]), as the store applies it
banInsert(table, r, outcome) ==
    IF outcome = "ok"
    THEN table \cup {[ban_id |-> r.ban_id, license_key |-> r.license_key,
                      expires_at |-> r.expires_at]}
    ELSE table

\* await supabase.from("bans").insert([...]); the handler does not look at
\* the result; res.json({success:true, ban_id}), or 500 from the catch
BanInsert(r, outcome) ==
    /\ r \in inflight /\ r.kind = "ban" /\ r.pc = "insert"
    /\ bans' = banInsert(bans, r, outcome)
    /\ Finish(r)
    /\ resp' = IF outcome = "throw"
               THEN [kind |-> "ban", status |-> 500, success |-> FALSE, req |-> r,
                     outcome |-> outcome]
               ELSE [kind |-> "ban", status |-> 200, success |-> TRUE, req |-> r,
                     ban_id |-> r.ban_id, outcome |-> outcome]
    /\ UNCHANGED << now, customers, panel_admins, server_logs, licenses, server_status,
                    liveVars, queueVars, logVars >>

\* durations an agent sends: none, the permanent words in several cases,
\* amounts with units, with capitals and blanks, and malformed texts
Durations ==
    {None} \cup
    { Some(text) : text \in {"", "P", "p", "perm", "PERM", "permanent", "Permanent",
                             "15m", "2h", "1d", "0m", "05m", "2H", " 2h ", "garbage",
                             "2x", "h", "12", "2 h", "-5m", "2.5h", "permanentx"} }

\* explicit expires_at values: none, a date text in UTC, one with an offset of
\* an hour, and a text that is no date
Explicits ==
    { None,
      Some([form |-> "iso", at |-> StartNow + HourMs, offset |-> 0]),
      Some([form |-> "iso", at |-> StartNow + HourMs, offset |-> 60]),
      Some([form |-> "text", at |-> 0, offset |-> 0]) }

BanTicks == 1           \* milliseconds the ban specification may start later

\* every duration without an explicit expires_at, and every explicit
\* expires_at next to no duration, an amount with a unit, and a malformed text
ExpiryInputs ==
    { << duration, None >> : duration \in Durations }
    \cup ({None, Some("2h"), Some("garbage")} \X (Explicits \ {None}))

NextBans ==
    \/ \E in \in ExpiryInputs : BanCreateStart("GG-A", "steam:1", None, in[1], in[2])
    \/ \E license_key \in {"", "GG-A"}, player \in {"", "steam:1"} :
          BanCreateStart(license_key, player, None, Some("2h"), None)
    \/ \E r \in inflight, outcome \in WriteOutcomes : BanInsert(r, outcome)

\* the requests arrive at any of the first milliseconds
InitBans ==
    /\ now \in StartNow..(StartNow + BanTicks)
    /\ inflight = {} /\ resp = NoResp
    /\ nPushed = 0 /\ delivered = << >> /\ trimmed = {}
    /\ InitStore /\ InitLive /\ InitLogs
    /\ actionQueue = [k \in Keys |-> None]

SpecBans == InitBans /\ [][NextBans]_vars
(***************************************************************************)
(* Properties of the ban expiry.                                           *)
(***************************************************************************)
\* the step computes the expiry of a ban: the request goes on to its insert,
\* or is answered 500 because the computation threw
ExpiryComputed ==
    \/ \E r \in inflight' \ inflight : r.kind = "ban"
    \/ resp'.kind = "ban" /\ resp'.req.pc = "compute"

expiryReq ==
    IF resp'.kind = "ban" THEN resp'.req
    ELSE CHOOSE r \in inflight' \ inflight : r.kind = "ban"

expiryThrown == resp'.kind = "ban"

PermanentWords == {"p", "perm", "permanent"}

\* str is <integer><unit>: digits followed by one of m, h, d
hasOffset(str) ==
    /\ Len(str) >= 2
    /\ \A i \in 1..(Len(str) - 1) : \E k \in 1..10 : charAt(str, i) = charAt(Digits, k)
    /\ charAt(str, Len(str)) \in {"m", "h", "d"}

\* the milliseconds <n><unit> stands for
offsetOf(str) ==
    Number(SubSeq(str, 1, Len(str) - 1))
    * (CASE charAt(str, Len(str)) = "m" -> 60000
         [] charAt(str, Len(str)) = "h" -> 60 * 60000
         [] charAt(str, Len(str)) = "d" -> 24 * 60 * 60000)

\* what the stated rule gives for the duration text as it is sent
expiryAsSent(r, value) ==
    LET text == IF r.duration = None THEN "P" ELSE Get(r.duration)
    IN  IF r.explicit # None
        THEN Get(r.explicit).form = "iso"
             /\ value = Some(Get(r.explicit).at - Get(r.explicit).offset * 60000)
        ELSE IF toLowerCase(text) \in PermanentWords \/ ~hasOffset(text)
        THEN value = None
        ELSE value = Some(r.at + offsetOf(text))

expiryNormalized(r, value) ==
    LET sent == IF r.duration = None \/ r.duration = Some("") THEN "P"
                ELSE Get(r.duration)
        text == toLowerCase(trim(sent))
    IN  IF r.explicit # None
        THEN value = Some(Get(r.explicit).at - Get(r.explicit).offset * 60000)
        ELSE IF text \in PermanentWords \/ ~hasOffset(text)
        THEN value = None
        ELSE value = Some(r.at + offsetOf(text))

ADMIN_SECRET == "admin-secret"

\* requireAdmin: the bearer token is ADMIN_SECRET
requireAdmin(bearer) == ADMIN_SECRET # "" /\ bearer = ADMIN_SECRET

ToggleStart(bearer, license_key, status) ==
    LET r == [kind |-> "toggle", pc |-> "update", license_key |-> license_key,
              status |-> status]
    IN  /\ IF ~requireAdmin(bearer)
           THEN /\ resp' = [kind |-> "toggle", status |-> 401, success |-> FALSE,
                            error |-> "UNAUTHORIZED", req |-> r]
                /\ UNCHANGED inflight
           ELSE IF license_key = "" \/ status = ""
           THEN /\ resp' = [kind |-> "toggle", status |-> 400, success |-> FALSE,
                            error |-> "", req |-> r]
                /\ UNCHANGED inflight
           ELSE /\ Cardinality(inflight) < MaxInflight
                /\ Suspend(r)
                /\ resp' = NoResp
        /\ UNCHANGED << now, storeVars, liveVars, queueVars, logVars >>

\* .update({ status }).eq("license_key", license_key), as the store applies it
setStatus(table, license_key, status, outcome) ==
    IF outcome = "ok"
    THEN { IF l.license_key = license_key THEN [l EXCEPT !.status = status] ELSE l :
           l \in table }
    ELSE table

\* await supabase.from("licenses").update(...); the handler does not look at
\* the result; res.json({ success: true }), or 500 from the catch
ToggleUpdate(r, outcome) ==
    /\ r \in inflight /\ r.kind = "toggle" /\ r.pc = "update"
    /\ licenses' = setStatus(licenses, r.license_key, r.status, outcome)
    /\ Finish(r)
    /\ resp' = [kind |-> "toggle", status |-> IF outcome = "throw" THEN 500 ELSE 200,
                success |-> outcome # "throw", error |-> "", req |-> r,
                outcome |-> outcome]
    /\ UNCHANGED << now, customers, panel_admins, bans, server_logs, server_status,
                    liveVars, queueVars, logVars >>

(***************************************************************************)
(* DELETE /api/server/ban/:banId (legacy)                                  *)
(***************************************************************************)
LegacyLiftStart(banId) ==
    /\ Cardinality(inflight) < MaxInflight
    /\ Suspend([kind |-> "legacy", pc |-> "update", banId |-> banId, ts |-> now])
    /\ resp' = NoResp
    /\ UNCHANGED << now, storeVars, liveVars, queueVars, logVars >>

\* await supabase.from("bans").update({ expires_at }).eq("ban_id", banId); the
\* handler does not look at the result; res.json({ success: true }), or 500
LegacyLiftUpdate(r, outcome) ==
    /\ r \in inflight /\ r.kind = "legacy" /\ r.pc = "update"
    /\ bans' = banUpdate(bans, r.banId, r.ts, outcome)
    /\ Finish(r)
    /\ resp' = [kind |-> "legacy", status |-> IF outcome = "throw" THEN 500 ELSE 200,
                success |-> outcome # "throw", req |-> r, outcome |-> outcome]
    /\ UNCHANGED << now, customers, panel_admins, server_logs, licenses, server_status,
                    liveVars, queueVars, logVars >>

(***************************************************************************)
(* The writes specification: a ban is created, ban-A is lifted by its      *)
(* owner and by the legacy route, and licenses are suspended by the        *)
(* operator, while the store applies, refuses or fails each write.         *)
(***************************************************************************)
NextWrites ==
    \/ Tick(1, MaxTicks)
    \/ BanCreateStart("GG-A", "steam:1", Some("ban-C"), Some("2h"), None)
    \/ \E r \in inflight, outcome \in WriteOutcomes : BanInsert(r, outcome)
    \/ LiftStart("ban-A", "cust-A")
    \/ \E r \in inflight : ResolveCustomers(r, "ok")
    \/ \E r \in inflight : LiftLookup(r, "ok")
    \/ \E r \in inflight, outcome \in StoreOutcomes : LiftUpdate(r, outcome)
    \/ \E r \in inflight : LiftPush(r)
    \/ \E banId \in BanIds : LegacyLiftStart(banId)
    \/ \E r \in inflight, outcome \in WriteOutcomes : LegacyLiftUpdate(r, outcome)
    \/ \E bearer \in {ADMIN_SECRET, "bogus"}, license_key \in {"", "GG-A", "GG-X"} :
          ToggleStart(bearer, license_key, "SUSPENDED")
    \/ \E r \in inflight, outcome \in WriteOutcomes : ToggleUpdate(r, outcome)

SpecWrites == Init /\ [][NextWrites]_vars

(***************************************************************************)
(* Properties of the required writes.                                      *)
(***************************************************************************)
\* C16: ban create answers success with a ban_id only if the ban record is
\* in the store, the authorized lift answers success only if the ban's
\* expires_at is set, set_status answers success only if the license has
\* the status asked for; and when the store reports a failure for the write
\* the answer is not success and has a 500-class status.
C16_RequiredWrites ==
    /\ (resp.kind = "ban" /\ resp.success)
       => \E b \in bans : b.ban_id = resp.ban_id
    /\ (resp.kind = "lift" /\ resp.success)
       => IsSome(banRow(bans, resp.req.banId).expires_at)
    /\ (resp.kind = "toggle" /\ resp.success)
       => \E l \in licenses : l.license_key = resp.req.license_key
                              /\ l.status = resp.req.status
    /\ (resp.kind \in {"ban", "toggle"} /\ resp.req.pc \in {"insert", "update"}
        /\ resp.status \in {200, 500} /\ resp.outcome # "ok")
       => ~resp.success /\ resp.status >= 500

\* C20: the legacy lift of an existing ban answers success and has the
\* effects of a successful authorized lift: the ban's expires_at is set to
\* the time of the request, the record and every other ban are kept as they
\* are, and one unban command for that ban is enqueued for the ban's tenant.
C20_LegacyAsLift ==
    [][ (resp'.kind = "legacy" /\ \E b \in bans : b.ban_id = resp'.req.banId)
        =>
        LET r == resp'.req
            ban == banRow(bans, r.banId)
        IN  /\ resp'.success /\ resp'.status = 200
            /\ bans' = (bans \ {ban}) \cup {[ban EXCEPT !.expires_at = Some(r.ts)]}
            /\ EnqueuedUnban(ban.license_key, r.banId)
      ]_vars
(***************************************************************************)
(* The mirror specification: the agent of GG-A sends heartbeats and log    *)
(* events while the store applies, refuses or fails each mirror write.     *)
(***************************************************************************)
NextMirror ==
    \/ Tick(1, MaxTicks)
    \/ /\ OpsTaken < MaxOps
       /\ \E license_key \in {"", "GG-A"}, b \in Beats :
             HeartbeatStart(license_key, b.players, b.version, b.uptime)
    \/ \E r \in inflight, outcome \in WriteOutcomes : HeartbeatUpsert(r, outcome)
    \/ /\ OpsTaken < MaxOps
       /\ \E license_key \in {"", "GG-A"}, message \in Messages :
             LogStart(license_key, "", message, 0)
    \/ \E r \in inflight, outcome \in WriteOutcomes : LogInsert(r, outcome)

SpecMirror == Init /\ [][NextMirror]_vars

\* the request a step has just suspended at its mirror write, if any
Mirrored == { r \in inflight' \ inflight : r.kind \in {"heartbeat", "log"} }

\* C18: a heartbeat with a license_key and a log ingest with a license_key
\* and a message apply their in-memory update (liveness record and roster;
\* the event at the head of the log buffer) before the mirror write, and
\* whether that write succeeds, returns an error or throws, the answer is
\* success with status 200 and the in-memory state is left as it was.
C18_MirrorAbsorbed ==
    [][ /\ \A r \in Mirrored :
              IF r.kind = "heartbeat"
              THEN /\ serverState'[r.license_key] =
                         Some([last_seen |-> now, players |-> Len(rosterOf(r.players)),
                               uptime |-> uptimeOf(r.uptime),
                               version |-> versionOf(r.version)])
                   /\ livePlayersByLicense'[r.license_key] = Some(rosterOf(r.players))
              ELSE /\ Head(Get(serverLogs'[r.license_key])) = r.item
                   /\ Tail(Get(serverLogs'[r.license_key]))
                         = SubSeq(logsOf(serverLogs, r.license_key), 1,
                                  Len(Get(serverLogs'[r.license_key])) - 1)
        /\ \A r \in inflight \ inflight' :
              r.kind \in {"heartbeat", "log"}
              => /\ resp'.kind = r.kind /\ resp'.req = r
                 /\ resp'.success /\ resp'.status = 200
                 /\ UNCHANGED << serverState, livePlayersByLicense, serverLogs >>
      ]_vars

\* a log ingest answered success although its mirror insert returned an
\* error, after a heartbeat whose mirror upsert was not applied either: the
\* event is in the buffer, the liveness record is there, the store has none
C18_Witness ==
    /\ resp.kind = "log" /\ resp.success /\ resp.outcome = "error"
    /\ Head(Get(serverLogs["GG-A"])) = resp.req.item
    /\ server_logs["GG-A"] = << >>
    /\ IsSome(serverState["GG-A"]) /\ IsSome(livePlayersByLicense["GG-A"])
    /\ server_status["GG-A"] = None
    /\ inflight = {}
(***************************************************************************)
(* The ids specification: the owner of GG-A sends dashboard actions of two *)
(* types and lifts ban-A, the clock may advance between any two steps, and *)
(* the agent polls.                                                        *)
(***************************************************************************)
ActionTypes == {"kick", "ban"}

NextIds ==
    \/ Tick(1, MaxTicks)
    \/ \E type \in ActionTypes : DashboardActionStart("cust-A", type, NoPayload)
    \/ LiftStart("ban-A", "cust-A")
    \/ \E r \in inflight : ResolveCustomers(r, "ok")
    \/ \E r \in inflight : LiftLookup(r, "ok")
    \/ \E r \in inflight : LiftUpdate(r, "ok")
    \/ \E r \in inflight : LiftPush(r)
    \/ Drain("GG-A")

SpecIds == Init /\ [][NextIds]_vars

\* every command enqueued for the tenant so far: waiting or delivered
EnqueuedFor(license_key) ==
    RangeOf(queueOf(actionQueue, license_key))
       \cup { delivered[i][2] : i \in { j \in DOMAIN delivered : delivered[j][1] = license_key } }

\* C21: no two commands enqueued for a tenant, by dashboard action or by
\* authorized lift, carry the same id.
C21_UniqueIds ==
    \A k \in Keys : \A a, b \in EnqueuedFor(k) : a.n # b.n => a.id # b.id
(***************************************************************************)
(* The signing specification: agents verify GG-A and GG-B, with and        *)
(* without a hwid, against a store that works, while the clock advances.   *)
(***************************************************************************)
NextSign ==
    \/ Tick(1, VerifyTicks)
    \/ \E license_key \in {"GG-A", "GG-B"}, hwid \in {None, Some("hw-1")} :
          VerifyStart(license_key, hwid)
    \/ \E r \in inflight : VerifySelect(r, "ok")
    \/ \E r \in inflight : VerifyBind(r, "ok")
    \/ \E r \in inflight : VerifySeen(r, "ok")

SpecSign == InitVerify /\ [][NextSign]_vars

(***************************************************************************)
(* Properties of the signed assertion.                                     *)
(***************************************************************************)
\* what a holder of the shared secret does with a payload and a signature
validates(payload, signature) == hmac(LICENSE_SECRET, payload) = signature

\* the assertion a valid answer makes
assertionOf(answer) ==
    [license_key |-> answer.req.license_key, status |-> Get(answer.req.lic).status,
     expires_at |-> Get(answer.req.lic).expires_at, issued_at |-> answer.issued_at]

\* the values a forger puts in place of a field
AlteredKeys == {"GG-A", "GG-B", "GG-AA", "GG-A\",\"status\":\"ACTIVE"}
AlteredStatuses == {"ACTIVE", "SUSPENDED", "CTIVE"}
AlteredExpiries == {None, Some(1), Some(StartNow), Some(StartNow + 1)}
AlteredIssued == {0, 1, StartNow, StartNow + 1}

Altered(assertion) ==
    { b \in [license_key : AlteredKeys, status : AlteredStatuses,
             expires_at : AlteredExpiries, issued_at : AlteredIssued] : b # assertion }

\* C22: the payload of a valid answer is the serialized assertion, its
\* signature validates against that payload, and it validates against the
\* serialization of no assertion that differs in license_key, status,
\* expires_at or issued_at.
C22_SignatureBinds ==
    (resp.kind = "verify" /\ resp.valid)
    => /\ resp.payload = stringify(assertionOf(resp))
       /\ validates(resp.payload, resp.signature)
       /\ \A b \in Altered(assertionOf(resp)) :
             ~validates(stringify(b), resp.signature)

\* a valid answer for a license with an expiry date, issued after the start
C22_Witness ==
    /\ resp.kind = "verify" /\ resp.valid
    /\ IsSome(assertionOf(resp).expires_at)
    /\ validates(resp.payload, resp.signature)
    /\ Altered(assertionOf(resp)) # {}
(***************************************************************************)
(* The scope specification: dashboard actions with every token, with and   *)
(* without a type, some naming another tenant in their payload, against a  *)
(* store that answers or fails, and the agents' polls.                     *)
(***************************************************************************)
ScopePayloads == { NoPayload, {<< "license_key", "GG-B" >>} }

NextScope ==
    \/ \E token \in Tokens \cup {NoToken}, type \in Types, payload \in ScopePayloads :
          DashboardActionStart(token, type, payload)
    \/ \E r \in inflight, outcome \in StoreOutcomes : ResolveCustomers(r, outcome)
    \/ \E r \in inflight, outcome \in StoreOutcomes : ResolveAdmins(r, outcome)
    \/ \E license_key \in Keys : Drain(license_key)

SpecScope == Init /\ [][NextScope]_vars

\* the tenants whose owner record or active admin record the token names
tenantsOf(token) ==
    { u.license_key : u \in ownersOf(token) }
       \cup { a.license_key : a \in activeAdminsOf(token) }

\* C23: a dashboard action answered success has appended exactly one
\* command, the request's, to the queue of the tenant of the identity its
\* token resolves to, and changed no other queue; a call without token or
\* type is answered MISSING_FIELDS and a call whose token resolves to no
\* identity UNAUTHORIZED, and neither changes any queue.
C23_IdentityScope ==
    [][ resp'.kind = "action" =>
          IF resp'.status = 200
          THEN LET r == resp'.req
                   T == resp'.license_key
                   command == [id |-> resp'.id, type |-> r.type, payload |-> r.payload,
                               created_at |-> now, n |-> nPushed + 1]
               IN  /\ r.token # NoToken /\ r.type # ""
                   /\ T \in tenantsOf(r.token)
                   /\ actionQueue' = pushAction(actionQueue, T, command)
                   /\ command = Get(actionQueue'[T])[Len(Get(actionQueue'[T]))]
                   /\ \A k \in Keys \ {T} : actionQueue'[k] = actionQueue[k]
          ELSE /\ \/ resp'.status = 400 /\ resp'.error = "MISSING_FIELDS"
                  \/ /\ resp'.status = 401 /\ resp'.error = "UNAUTHORIZED"
                     /\ resp'.req.token # NoToken /\ resp'.req.type # ""
               /\ ~resp'.success
               /\ actionQueue' = actionQueue
      ]_vars

\* the owner of GG-A has sent an action whose payload names GG-B: the command
\* is in the queue of GG-A and GG-B has no queue
C23_Witness ==
    /\ resp.kind = "action" /\ resp.status = 200
    /\ resp.req.token = "cust-A" /\ resp.req.payload # NoPayload
    /\ resp.license_key = "GG-A"
    /\ queueOf(actionQueue, "GG-A") # << >>
    /\ actionQueue["GG-B"] = None
(***************************************************************************)
(* POST /api/panel/admins/login                                            *)
(***************************************************************************)
\* if (!token) 400, else resolvePanelIdentity(token); the answer is given by
\* Resolved and Unresolved
AdminLoginStart(token) ==
    /\ IF token = NoToken
       THEN /\ resp' = [kind |-> "login", status |-> 400, success |-> FALSE, error |-> "",
                        license_key |-> "", req |-> [kind |-> "login", token |-> token]]
            /\ UNCHANGED inflight
       ELSE /\ Cardinality(inflight) < MaxInflight
            /\ Suspend([kind |-> "login", pc |-> "customers", token |-> token])
            /\ resp' = NoResp
    /\ UNCHANGED << now, storeVars, liveVars, queueVars, logVars >>

(***************************************************************************)
(* POST /api/panel/admins/toggle                                           *)
(***************************************************************************)
AdminToggleStart(token, id, active) ==
    LET r == [kind |-> "admtoggle", pc |-> "owner", token |-> token, id |-> id,
              active |-> active, license_key |-> ""]
    IN  /\ IF token = NoToken
           THEN /\ resp' = [kind |-> "admtoggle", status |-> 401, success |-> FALSE,
                            error |-> "UNAUTHORIZED", req |-> r]
                /\ UNCHANGED inflight
           ELSE /\ Cardinality(inflight) < MaxInflight
                /\ Suspend(r)
                /\ resp' = NoResp
        /\ UNCHANGED << now, storeVars, liveVars, queueVars, logVars >>

\* requireCustomer's query of customers, then the check of id and active
AdminToggleOwner(r, outcome) ==
    /\ r \in inflight /\ r.kind = "admtoggle" /\ r.pc = "owner"
    /\ LET user == customerLookup(customers, r.token, outcome)
       IN  IF user = NoIdentity
           THEN /\ Finish(r)
                /\ resp' = [kind |-> "admtoggle", status |-> 401, success |-> FALSE,
                            error |-> "UNAUTHORIZED", req |-> r]
           ELSE IF r.id = "" \/ r.active = None
           THEN /\ Finish(r)
                /\ resp' = [kind |-> "admtoggle", status |-> 400, success |-> FALSE,
                            error |-> "MISSING_FIELDS", req |-> r]
           ELSE /\ Move(r, [r EXCEPT !.pc = "update", !.license_key = user.license_key])
                /\ resp' = NoResp
    /\ UNCHANGED << now, storeVars, liveVars, queueVars, logVars >>

setActive_anyTenant(table, id, license_key, active, outcome) ==
    IF outcome = "ok"
    THEN { IF a.id = id THEN [a EXCEPT !.active = active] ELSE a : a \in table }
    ELSE table

\* .update({ active }).eq("id", id).eq("license_key", user.license_key), as
\* the store applies it
setActive(table, id, license_key, active, outcome) ==
    IF outcome = "ok"
    THEN { IF a.id = id /\ a.license_key = license_key
           THEN [a EXCEPT !.active = active] ELSE a : a \in table }
    ELSE table

\* if (error) 500 DB_ERROR, else success; 500 from the catch
AdminToggleUpdate(r, outcome) ==
    /\ r \in inflight /\ r.kind = "admtoggle" /\ r.pc = "update"
    /\ panel_admins' = setActive(panel_admins, r.id, r.license_key, Get(r.active), outcome)
    /\ Finish(r)
    /\ resp' = [kind |-> "admtoggle", status |-> IF outcome = "ok" THEN 200 ELSE 500,
                success |-> outcome = "ok",
                error |-> IF outcome = "error" THEN "DB_ERROR" ELSE "",
                req |-> r, outcome |-> outcome]
    /\ UNCHANGED << now, customers, bans, server_logs, licenses, server_status,
                    liveVars, queueVars, logVars >>

(***************************************************************************)
(* The admins specification: the owners of GG-A and GG-B switch the admin  *)
(* record adm-A off and on, while the admin's token is used for dashboard  *)
(* actions, for lifts of ban-A and for logins.                             *)
(***************************************************************************)
NextAdmins ==
    \/ \E token \in {"cust-A", "cust-B", NoToken}, active \in {None, Some(TRUE), Some(FALSE)} :
          AdminToggleStart(token, "adm-A", active)
    \/ \E r \in inflight : AdminToggleOwner(r, "ok")
    \/ \E r \in inflight, outcome \in WriteOutcomes : AdminToggleUpdate(r, outcome)
    \/ DashboardActionStart("inv-A", "kick", NoPayload)
    \/ LiftStart("ban-A", "inv-A")
    \/ AdminLoginStart("inv-A")
    \/ \E r \in inflight : ResolveCustomers(r, "ok")
    \/ \E r \in inflight, outcome \in StoreOutcomes : ResolveAdmins(r, outcome)
    \/ \E r \in inflight : LiftLookup(r, "ok")
    \/ \E r \in inflight : LiftUpdate(r, "ok")
    \/ \E r \in inflight : LiftPush(r)

SpecAdmins == Init /\ [][NextAdmins]_vars

(***************************************************************************)
(* Properties of the admin records.                                        *)
(***************************************************************************)
\* the request the step has taken up
Handled(r) == r \in inflight /\ r \notin inflight'

\* C24: while no admin record with a token's digest is active, every
\* dashboard action, lift or login whose admin query is made with that
\* token is rejected (401 UNAUTHORIZED for the action and the lift, success
\* false for the login) and changes no queue and no ban, so a request that
\* starts after the deactivating toggle has completed is rejected until the
\* record is active again; and a toggle changes nothing but the active flag
\* of the record with the given id, and only if its license_key is the
\* toggling owner's.
C24_Deactivated ==
    [][ /\ \A r \in inflight :
              (/\ r.kind \in {"action", "lift", "login"} /\ r.pc = "admins"
               /\ Handled(r) /\ activeAdminsOf(r.token) = {})
              => /\ resp'.kind = r.kind /\ resp'.req = r
                 /\ ~resp'.success
                 /\ r.kind \in {"action", "lift"}
                       => resp'.status = 401 /\ resp'.error = "UNAUTHORIZED"
                 /\ actionQueue' = actionQueue /\ bans' = bans
        /\ \A r \in inflight :
              (r.kind = "admtoggle" /\ r.pc = "update" /\ Handled(r))
              => LET owners == { u.license_key : u \in ownersOf(r.token) }
                 IN  /\ \A a \in panel_admins :
                           (a.license_key \notin owners \/ a.id # r.id) => a \in panel_admins'
                     /\ \A b \in panel_admins' :
                           b \in panel_admins
                           \/ \E a \in panel_admins : b = [a EXCEPT !.active = Get(r.active)]
        /\ panel_admins' # panel_admins
              => \E r \in inflight : r.kind = "admtoggle" /\ Handled(r)
      ]_vars

\* adm-A has been switched off by its owner, and a dashboard action with the
\* admin's token has been answered UNAUTHORIZED, the queue of GG-A untouched
C24_Witness ==
    /\ \E a \in panel_admins : a.id = "adm-A" /\ ~a.active
    /\ resp.kind = "action" /\ resp.status = 401 /\ resp.req.token = "inv-A"
    /\ actionQueue["GG-A"] = None
    /\ inflight = {}
(***************************************************************************)
(* The race specification: two devices verify the unbound license GG-A at  *)
(* the same time, each presenting its own hwid, against a store that works.*)
(***************************************************************************)
NextRace ==
    \/ Tick(1, VerifyTicks)
    \/ \E h \in Hwids : VerifyCall("GG-A", Some(h), MaxRacing)
    \/ \E r \in inflight : VerifySelect(r, "ok")
    \/ \E r \in inflight : VerifyBind(r, "ok")
    \/ \E r \in inflight : VerifySeen(r, "ok")

SpecRace == Init /\ [][NextRace]_vars

\* C25: once the stored hwid of a license is non-null no step changes it, so
\* at most one of the hwids presented to an unbound license is ever bound.
C25_BoundOnce ==
    [][ \A l \in licenses : IsSome(l.hwid)
          => \E l2 \in licenses' : l2.id = l.id /\ l2.hwid = l.hwid ]_vars
(***************************************************************************)
(* The limit specification: the agent of GG-A ingests events and the       *)
(* dashboard reads the log with every kind of limit, against a store that  *)
(* answers, fails, returns no list or throws.                              *)
(***************************************************************************)
AllLimitQueries == {NoQuery, "0", "1", "2", "600", "-1", "abc"}

NextLimit ==
    \/ LogStart("GG-A", "", "m", 0)
    \/ \E r \in inflight, outcome \in WriteOutcomes : LogInsert(r, outcome)
    \/ \E query \in AllLimitQueries : LogRead("GG-A", query)
    \/ \E r \in inflight, outcome \in ReadOutcomes : LogSelect(r, outcome)

SpecLimit == InitLog /\ [][NextLimit]_vars

\* the limit the request asks for: 200 when absent, the number given, and
\* none when the text is no number
requestedLimit(query) ==
    IF query = NoQuery THEN Some(DefaultLimit) ELSE parseInt10(query)

\* C26: a log read returns at most 500 entries and at most as many as the
\* limit it asks for (none for a limit of zero or below), from the store
\* and from the buffer, and what it returns from the buffer are the buffer's
\* first entries in buffer order.
C26_LimitRespected ==
    resp.kind = "logs" =>
        LET asked == requestedLimit(resp.req.query)
            mem == logsOf(serverLogs, resp.req.license_key)
        IN  /\ Len(resp.logs) <= LimitCap
            /\ IsSome(asked) => Len(resp.logs) <= (IF Get(asked) < 0 THEN 0 ELSE Get(asked))
            /\ FellBack(resp.outcome)
                  => resp.logs = SubSeq(mem, 1, Len(resp.logs))
====
